---------------------------- MODULE Spec2Model ----------------------------
(***************************************************************************)
(* Similarity-weighted estimation engine of ai-estimation-tool.            *)
(*                                                                         *)
(*   - src/hnavi_integration.py : HnaviDataProcessor (corpus, TF-IDF       *)
(*     index, similarity search, snapshot load/save)                       *)
(*   - src/enhanced_main.py     : the /api/estimate endpoint (keyword      *)
(*     similarity, weighted base estimate, duration / user-scale           *)
(*     adjustment)                                                         *)
(*                                                                         *)
(* Python floats are IEEE-754 binary64.  The endpoint truncates float      *)
(* results with int(), so the rounding of every float operation is part    *)
(* of its behaviour; floats are therefore modelled bit-exactly, as a       *)
(* 53-bit mantissa (an arbitrary-precision natural) and a binary exponent, *)
(* with round-to-nearest-even.  All floats of the program are finite and   *)
(* non-negative and far from the subnormal and overflow ranges.            *)
(***************************************************************************)
EXTENDS Integers, Sequences, FiniteSets, TLC

(***************************************************************************)
(* Arbitrary-precision naturals: little-endian sequences of 14-bit limbs,  *)
(* without leading (most significant) zero limbs; zero is << >>.           *)
(***************************************************************************)
LimbBits == 14
LimbBase == 2^14

Pow2(n) == 2^n

RECURSIVE BigNorm(_)
BigNorm(a) ==
    IF a = << >> THEN << >>
    ELSE IF a[Len(a)] = 0 THEN BigNorm(SubSeq(a, 1, Len(a) - 1))
    ELSE a

RECURSIVE BigFromInt(_)
BigFromInt(n) ==
    IF n = 0 THEN << >>
    ELSE <<n % LimbBase>> \o BigFromInt(n \div LimbBase)

RECURSIVE BigToInt(_)
BigToInt(a) ==
    IF a = << >> THEN 0
    ELSE a[1] + LimbBase * BigToInt(Tail(a))

Limb(a, i) == IF i <= Len(a) THEN a[i] ELSE 0

\* -1, 0, 1 as a < b, a = b, a > b; compares limbs i, i-1, ..., 1
RECURSIVE BigCmpFrom(_, _, _)
BigCmpFrom(a, b, i) ==
    IF i = 0 THEN 0
    ELSE IF a[i] < b[i] THEN -1
    ELSE IF a[i] > b[i] THEN 1
    ELSE BigCmpFrom(a, b, i - 1)

BigCmp(a, b) ==
    IF Len(a) < Len(b) THEN -1
    ELSE IF Len(a) > Len(b) THEN 1
    ELSE BigCmpFrom(a, b, Len(a))

RECURSIVE BigAddC(_, _, _, _)
BigAddC(a, b, i, carry) ==
    IF i > Len(a) /\ i > Len(b)
    THEN (IF carry = 0 THEN << >> ELSE <<carry>>)
    ELSE LET s == Limb(a, i) + Limb(b, i) + carry
         IN  <<s % LimbBase>> \o BigAddC(a, b, i + 1, s \div LimbBase)

BigAdd(a, b) == BigAddC(a, b, 1, 0)

\* a - b for a >= b
RECURSIVE BigSubB(_, _, _, _)
BigSubB(a, b, i, borrow) ==
    IF i > Len(a) THEN << >>
    ELSE LET d == a[i] - Limb(b, i) - borrow
         IN  IF d < 0
             THEN <<d + LimbBase>> \o BigSubB(a, b, i + 1, 1)
             ELSE <<d>> \o BigSubB(a, b, i + 1, 0)

BigSub(a, b) == BigNorm(BigSubB(a, b, 1, 0))

\* a * k for 0 <= k < 2^16
RECURSIVE BigMulSmallC(_, _, _, _)
BigMulSmallC(a, k, i, carry) ==
    IF i > Len(a)
    THEN (IF carry = 0 THEN << >> ELSE BigFromInt(carry))
    ELSE LET p == a[i] * k + carry
         IN  <<p % LimbBase>> \o BigMulSmallC(a, k, i + 1, p \div LimbBase)

BigMulSmall(a, k) == IF k = 0 THEN << >> ELSE BigMulSmallC(a, k, 1, 0)

ZeroLimbs(n) == [i \in 1..n |-> 0]

RECURSIVE BigMulFrom(_, _, _)
BigMulFrom(a, b, i) ==
    IF i > Len(b) THEN << >>
    ELSE BigAdd(IF b[i] = 0 THEN << >>
                ELSE ZeroLimbs(i - 1) \o BigMulSmall(a, b[i]),
                BigMulFrom(a, b, i + 1))

BigMul(a, b) == IF a = << >> \/ b = << >> THEN << >> ELSE BigMulFrom(a, b, 1)

\* a * 2^n
BigShl(a, n) ==
    IF a = << >> THEN << >>
    ELSE ZeroLimbs(n \div LimbBits) \o BigMulSmall(a, Pow2(n % LimbBits))

\* floor(a / 2^n)
BigShr(a, n) ==
    LET drop == n \div LimbBits
        r    == n % LimbBits
    IN  IF drop >= Len(a) THEN << >>
        ELSE LET t == SubSeq(a, drop + 1, Len(a))
             IN  IF r = 0 THEN t
                 ELSE BigNorm([i \in 1..Len(t) |->
                          (t[i] \div Pow2(r))
                          + (Limb(t, i + 1) % Pow2(r)) * Pow2(LimbBits - r)])

RECURSIVE IntBitLen(_)
IntBitLen(n) == IF n = 0 THEN 0 ELSE 1 + IntBitLen(n \div 2)

BigBitLen(a) ==
    IF a = << >> THEN 0
    ELSE LimbBits * (Len(a) - 1) + IntBitLen(a[Len(a)])

\* bit i (bit 0 is the least significant)
BigBit(a, i) == (Limb(a, (i \div LimbBits) + 1) \div Pow2(i % LimbBits)) % 2

\* whether any of the bits 0 .. n-1 of a is set
BigLowNonZero(a, n) ==
    \/ \E i \in 1..(n \div LimbBits) : Limb(a, i) /= 0
    \/ Limb(a, (n \div LimbBits) + 1) % Pow2(n % LimbBits) /= 0

\* Long division, limb by limb (Knuth's algorithm D).  d is scaled so that
\* its top limb is at least LimbBase / 2; a quotient limb estimated from the
\* top limbs of the running remainder is then at most 2 too large.
RECURSIVE BigDivFix(_, _, _)
BigDivFix(r, d, est) ==
    IF BigCmp(BigMulSmall(d, est), r) > 0 THEN BigDivFix(r, d, est - 1) ELSE est

\* the quotient limb floor(r / d) for r < d * LimbBase
BigDivLimb(r, d) ==
    IF Len(r) < Len(d) THEN 0
    ELSE LET k   == Len(d)
             top == Limb(r, k + 1) * LimbBase + r[k]
             est == top \div d[k]
         IN  BigDivFix(r, d, IF est > LimbBase - 1 THEN LimbBase - 1 ELSE est)

\* limbs j..1 of n divided by d with incoming remainder r < d:
\* <<quotient limbs, remainder>>
RECURSIVE BigDivModFrom(_, _, _, _)
BigDivModFrom(n, d, j, r) ==
    IF j = 0 THEN <<<< >>, r>>
    ELSE LET r2   == BigNorm(<<n[j]>> \o r)
             q    == BigDivLimb(r2, d)
             rest == BigDivModFrom(n, d, j - 1, BigSub(r2, BigMulSmall(d, q)))
         IN  <<rest[1] \o <<q>>, rest[2]>>

\* <<floor(n / d), n mod d>> for d > 0
BigDivMod(n, d) ==
    LET shift == LimbBits - IntBitLen(d[Len(d)])
        nn    == BigShl(n, shift)
        qr    == BigDivModFrom(nn, BigShl(d, shift), Len(nn), << >>)
    IN  <<BigNorm(qr[1]), BigShr(qr[2], shift)>>

(***************************************************************************)
(* binary64: [m |-> mantissa, e |-> exponent] stands for m * 2^e, with     *)
(* m = 0 (and e = 0) or 2^52 <= m < 2^53.                                  *)
(***************************************************************************)
MantBits == 53

FZero == [m |-> << >>, e |-> 0]

\* n * 2^e (plus something in (0, 2^e) when sticky) rounded to nearest, ties to even
FRound(n, e, sticky) ==
    LET len == BigBitLen(n)
    IN  IF len = 0 THEN FZero
        ELSE IF len <= MantBits
        THEN [m |-> BigShl(n, MantBits - len), e |-> e - (MantBits - len)]
        ELSE LET s    == len - MantBits
                 q    == BigShr(n, s)
                 half == BigBit(n, s - 1) = 1
                 rest == sticky \/ BigLowNonZero(n, s - 1)
                 up   == half /\ (rest \/ BigBit(q, 0) = 1)
                 q1   == IF up THEN BigAdd(q, <<1>>) ELSE q
             IN  IF BigBitLen(q1) > MantBits
                 THEN [m |-> BigShr(q1, 1), e |-> e + s + 1]
                 ELSE [m |-> q1, e |-> e + s]

\* float(n) for an int n >= 0
FFromInt(n) == FRound(BigFromInt(n), 0, FALSE)

FMul(a, b) == FRound(BigMul(a.m, b.m), a.e + b.e, FALSE)

FAdd(a, b) ==
    IF a.m = << >> THEN b
    ELSE IF b.m = << >> THEN a
    ELSE LET e == IF a.e < b.e THEN a.e ELSE b.e
         IN  FRound(BigAdd(BigShl(a.m, a.e - e), BigShl(b.m, b.e - e)), e, FALSE)

\* a / b for b > 0
FDiv(a, b) ==
    IF a.m = << >> THEN FZero
    ELSE LET qr == BigDivMod(BigShl(a.m, MantBits + 2), b.m)
         IN  FRound(qr[1], a.e - b.e - (MantBits + 2), qr[2] /= << >>)

\* -1, 0, 1 as a < b, a = b, a > b
FCmp(a, b) ==
    IF a.m = << >> THEN (IF b.m = << >> THEN 0 ELSE -1)
    ELSE IF b.m = << >> THEN 1
    ELSE IF a.e < b.e THEN -1
    ELSE IF a.e > b.e THEN 1
    ELSE BigCmp(a.m, b.m)

FGt(a, b) == FCmp(a, b) > 0

\* int(a): truncation toward zero
FTrunc(a) ==
    IF a.m = << >> THEN 0
    ELSE IF a.e >= 0 THEN BigToInt(BigShl(a.m, a.e))
    ELSE BigToInt(BigShr(a.m, 0 - a.e))

\* the float a decimal literal num/den denotes (literals are correctly rounded)
FLit(num, den) == FDiv(FFromInt(num), FFromInt(den))

(***************************************************************************)
(* src/enhanced_main.py: the corpus of the estimate endpoint.              *)
(*                                                                         *)
(* A text is modelled by the set of the terms that occur in it, lower      *)
(* case.  The Japanese terms are written as English glosses:               *)
(*   ec=EC  mail_order=通販  shopping=ショッピング  management=管理         *)
(*   system=システム  business=業務  reservation=予約  calendar=カレンダー  *)
(*   schedule=スケジュール  site=サイト  homepage=ホームページ              *)
(*   inventory=在庫  product=商品  sales=売上  customer=顧客  member=会員   *)
(*   payment=決済  pay=支払い  billing=課金  analysis=分析                 *)
(*   report=レポート  statistics=統計  contents=コンテンツ  article=記事    *)
(*   app=アプリ                                                            *)
(***************************************************************************)

\* keyword_patterns of extract_keywords: one set of alternatives per pattern.
\* "ecommerce" and "website" never come out of re.findall (the earlier
\* alternatives "EC" and "Web" match at the same place) and are left out.
keyword_patterns ==
    << {"ec", "mail_order", "shopping"},
       {"management", "system", "business", "crm", "erp"},
       {"reservation", "calendar", "schedule", "booking"},
       {"site", "homepage", "web"},
       {"inventory", "product", "sales"},
       {"customer", "member"},
       {"payment", "pay", "billing"},
       {"analysis", "report", "statistics", "analytics"},
       {"cms", "contents", "article"},
       {"app", "mobile", "ios", "android"} >>

\* extract_keywords(text): every occurrence of every alternative of every
\* pattern that matches, lower-cased, as a set
extract_keywords(text) ==
    UNION { IF text \cap keyword_patterns[p] /= {}
            THEN text \cap keyword_patterns[p] ELSE {}
            : p \in 1..Len(keyword_patterns) }

\* float literals of the source
Lit_0_3  == FLit(3, 10)
Lit_0_7  == FLit(7, 10)
Lit_0_9  == FLit(9, 10)
Lit_100  == FFromInt(100)

\* The six records load_sample_data installs.  terms: the terms of
\* "title description features".
SampleData ==
    << [title |-> "ec_site", hours |-> 880, cost |-> 5500000, confidence |-> FLit(9, 10),
        terms |-> {"ec", "site", "system", "product", "inventory", "payment",
                   "management", "customer", "apparel", "laravel", "mysql", "aws"}],
       [title |-> "business_system", hours |-> 760, cost |-> 4750000, confidence |-> FLit(85, 100),
        terms |-> {"system", "report", "analysis", "business", "management",
                   "customer", "invoice", "java", "postgresql"}],
       [title |-> "reservation_system", hours |-> 440, cost |-> 2750000, confidence |-> FLit(8, 10),
        terms |-> {"app", "calendar", "system", "reservation", "management",
                   "salon", "notification", "python", "django"}],
       [title |-> "corporate_site", hours |-> 200, cost |-> 1250000, confidence |-> FLit(75, 100),
        terms |-> {"site", "management", "news", "inquiry", "wordpress", "php"}],
       [title |-> "inventory_system", hours |-> 520, cost |-> 3200000, confidence |-> FLit(8, 10),
        terms |-> {"system", "report", "product", "inventory", "management",
                   "alert", "dotnet"}],
       [title |-> "mobile_app", hours |-> 640, cost |-> 4000000, confidence |-> FLit(8, 10),
        terms |-> {"android", "ios", "app", "api", "push", "swift", "kotlin"}] >>

\* calculate_similarity_enhanced(description, project_data): Jaccard
\* coefficient of the two keyword sets, weighted by 0.7 + 0.3 * confidence
calculate_similarity_enhanced(description, project_data) ==
    LET desc_keywords    == extract_keywords(description)
        project_keywords == extract_keywords(project_data.terms)
        intersection     == desc_keywords \cap project_keywords
        union            == desc_keywords \cup project_keywords
        similarity       == IF union /= {}
                            THEN FDiv(FFromInt(Cardinality(intersection)),
                                      FFromInt(Cardinality(union)))
                            ELSE FZero
    IN  IF desc_keywords = {} /\ project_keywords = {} THEN FZero
        ELSE FMul(similarity, FAdd(Lit_0_7, FMul(Lit_0_3, project_data.confidence)))

\* list.sort(key=similarity, reverse=True): stable, equal keys keep their order.
\* InsertDesc puts x behind every element whose similarity is >= x's.
RECURSIVE InsertDesc(_, _)
InsertDesc(x, sorted) ==
    IF sorted = << >> THEN <<x>>
    ELSE IF FCmp(Head(sorted).similarity, x.similarity) >= 0
         THEN <<Head(sorted)>> \o InsertDesc(x, Tail(sorted))
         ELSE <<x>> \o sorted

RECURSIVE SortDesc(_)
SortDesc(list) ==
    IF list = << >> THEN << >>
    ELSE InsertDesc(list[Len(list)], SortDesc(SubSeq(list, 1, Len(list) - 1)))

\* duration_multipliers of calculate_duration_impact
duration_multipliers ==
    [key \in {"1month", "2months", "3months", "4-6months", "6-12months", "1year+"} |->
        CASE key = "1month"     -> FLit(18, 10)
          [] key = "2months"    -> FLit(14, 10)
          [] key = "3months"    -> FLit(11, 10)
          [] key = "4-6months"  -> FLit(10, 10)
          [] key = "6-12months" -> FLit(12, 10)
          [] key = "1year+"     -> FLit(15, 10)]

\* duration_multipliers.get(duration, {"multiplier": 1.0, ...})["multiplier"]
duration_multiplier(duration) ==
    IF duration \in DOMAIN duration_multipliers
    THEN duration_multipliers[duration] ELSE FLit(1, 1)

\* calculate_duration_impact(duration, base_hours)[0]
calculate_duration_impact(duration, base_hours) ==
    FTrunc(FMul(FFromInt(base_hours), duration_multiplier(duration)))

\* user_scale_adjustments of calculate_user_scale_impact
user_scale_adjustments ==
    [key \in {"small", "medium", "large", "enterprise", "public"} |->
        CASE key = "small"      -> [multiplier |-> FLit(10, 10), infrastructure |-> "basic",
                                    additional_features |->
                                        <<"basic_authentication", "simple_admin_screen">>]
          [] key = "medium"     -> [multiplier |-> FLit(13, 10), infrastructure |-> "scalable",
                                    additional_features |->
                                        <<"load_balancer", "db_optimization", "cache_system">>]
          [] key = "large"      -> [multiplier |-> FLit(18, 10), infrastructure |-> "high_availability",
                                    additional_features |->
                                        <<"cdn", "redundancy", "monitoring_system", "auto_scaling">>]
          [] key = "enterprise" -> [multiplier |-> FLit(25, 10), infrastructure |-> "enterprise",
                                    additional_features |->
                                        <<"microservices", "api_gateway", "security_hardening",
                                          "backup_system">>]
          [] key = "public"     -> [multiplier |-> FLit(22, 10), infrastructure |-> "public",
                                    additional_features |->
                                        <<"ddos_protection", "global_cdn", "multilingual",
                                          "access_analytics">>]]

\* variant: an unknown key gets the entry of "small"
user_info_small(users) ==
    IF users \in DOMAIN user_scale_adjustments
    THEN user_scale_adjustments[users] ELSE user_scale_adjustments["small"]

\* user_scale_adjustments.get(users, user_scale_adjustments["medium"])
user_info(users) ==
    IF users \in DOMAIN user_scale_adjustments
    THEN user_scale_adjustments[users] ELSE user_scale_adjustments["medium"]

\* variant: the scale factor is not applied to the cost
calculate_user_scale_impact_unscaled(users, base_cost) ==
    FTrunc(FMul(FFromInt(base_cost), FLit(1, 1)))

\* calculate_user_scale_impact(users, base_cost)[0]
calculate_user_scale_impact(users, base_cost) ==
    FTrunc(FMul(FFromInt(base_cost), user_info(users).multiplier))

\* sum(...) of Python: 0 + x1 + x2 + ..., left to right
RECURSIVE FSum(_)
FSum(values) ==
    IF values = << >> THEN FZero
    ELSE FAdd(FSum(SubSeq(values, 1, Len(values) - 1)), values[Len(values)])

\* f"{x * 100:.1f}": x * 100 as a float, then the exact value rounded to one
\* decimal, ties to even; the result is the number of tenths of a percent
FormatPercent(x) ==
    LET y == FMul(x, Lit_100)
        n == BigMulSmall(y.m, 10)
        s == 0 - y.e
    IN  IF y.m = << >> THEN 0
        ELSE IF s <= 0 THEN BigToInt(BigShl(n, y.e))
        ELSE LET q    == BigShr(n, s)
                 half == BigBit(n, s - 1) = 1
                 rest == BigLowNonZero(n, s - 1)
                 up   == half /\ (rest \/ BigBit(q, 0) = 1)
             IN  BigToInt(q) + (IF up THEN 1 ELSE 0)

Min(a, b) == IF a < b THEN a ELSE b

\* phase_ratios of calculate_phases_enhanced, in hundredths (0.25 is 25); the
\* keys are "EC・通販", "業務システム", "予約・管理", "コーポレート" and
\* "default", the phases 要件定義・設計, 開発, テスト and デザイン
phase_ratios ==
    [ec              |-> [requirements_design |-> 25, development |-> 45,
                          test |-> 20, design |-> 10],
     business_system |-> [requirements_design |-> 30, development |-> 50,
                          test |-> 15, design |-> 5],
     reservation     |-> [requirements_design |-> 20, development |-> 50,
                          test |-> 20, design |-> 10],
     corporate       |-> [requirements_design |-> 15, development |-> 40,
                          test |-> 15, design |-> 30],
     default         |-> [requirements_design |-> 20, development |-> 50,
                          test |-> 20, design |-> 10]]

\* the floats the decimal literals of an entry of phase_ratios denote
Floats(hundredths) ==
    [requirements_design |-> FLit(hundredths.requirements_design, 100),
     development         |-> FLit(hundredths.development, 100),
     test                |-> FLit(hundredths.test, 100),
     design              |-> FLit(hundredths.design, 100)]

\* phase_ratios.get(category, phase_ratios["default"]).copy()
category_ratios(category) ==
    Floats(IF category \in DOMAIN phase_ratios
           THEN phase_ratios[category] ELSE phase_ratios["default"])

\* the factors of the "*=" statements of calculate_phases_enhanced, in tenths
\* (0.7 is 7), by branch; none: no statement is executed
phase_factors ==
    [short |-> [requirements_design |-> 7, development |-> 11, test |-> 12],
     long  |-> [requirements_design |-> 13, development |-> 9, test |-> 14],
     large |-> [requirements_design |-> 14, development |-> 9, test |-> 16],
     small |-> [requirements_design |-> 8, development |-> 12],
     none  |-> << >>]

\* ratios[phase] *= factor, for a phase the branch has a statement for
Times(ratios, factors, phase) ==
    IF phase \in DOMAIN factors
    THEN FMul(ratios[phase], FLit(factors[phase], 10))
    ELSE ratios[phase]

\* the "*=" statements of one branch
Scaled(ratios, factors) ==
    [requirements_design |-> Times(ratios, factors, "requirements_design"),
     development         |-> Times(ratios, factors, "development"),
     test                |-> Times(ratios, factors, "test"),
     design              |-> Times(ratios, factors, "design")]

\* Lines 310 and 315: the branch the duration selects
DurationFactors(duration) ==
    IF duration = "1month" THEN phase_factors.short
    ELSE IF duration \in {"6-12months", "1year+"} THEN phase_factors.long
    ELSE phase_factors.none

\* Lines 309-319: the adjustment by duration
DurationAdjusted(ratios, duration) == Scaled(ratios, DurationFactors(duration))

\* Lines 322 and 327: the branch the user scale selects
ScaleFactors(users) ==
    IF users \in {"large", "enterprise", "public"} THEN phase_factors.large
    ELSE IF users = "small" THEN phase_factors.small
    ELSE phase_factors.none

\* variant: the factors of the small scale and of the large scales change
\* places
ScaleAdjusted_inverted(ratios, users) ==
    Scaled(ratios, IF users = "small" THEN phase_factors.large
                   ELSE IF users \in {"large", "enterprise", "public"}
                        THEN phase_factors.small
                        ELSE phase_factors.none)

\* Lines 321-330: the adjustment by user scale
ScaleAdjusted(ratios, users) == Scaled(ratios, ScaleFactors(users))

\* variant: the ratios are left as adjusted
Normalized_skipped(ratios) == ratios

\* Lines 332-335: total_ratio = sum(ratios.values()); ratios[phase] /= total_ratio
Normalized(ratios) ==
    LET total_ratio == FSum(<<ratios.requirements_design, ratios.development,
                              ratios.test, ratios.design>>)
    IN  [requirements_design |-> FDiv(ratios.requirements_design, total_ratio),
         development         |-> FDiv(ratios.development, total_ratio),
         test                |-> FDiv(ratios.test, total_ratio),
         design              |-> FDiv(ratios.design, total_ratio)]

\* Lines 307-335: the ratios the hours are split by
PhaseRatios(category, duration, users) ==
    Normalized(ScaleAdjusted(DurationAdjusted(category_ratios(category), duration), users))

\* variant: every phase is priced at the rate of development
hourly_rate_flat(phase) == 5000

\* Lines 341-346: the price of an hour, by phase
hourly_rate(phase) ==
    IF phase = "design" THEN 6000
    ELSE IF phase = "requirements_design" THEN 7000
    ELSE 5000

\* Lines 339-351: hours = int(total_hours * ratio) and the cost of a phase
Phase(total, ratio, phase) ==
    LET hours == FTrunc(FMul(total, ratio))
    IN  [hours |-> hours, cost |-> hours * hourly_rate(phase)]

\* the phase map for given ratios
PhasesFor(total_hours, ratios) ==
    LET total == FFromInt(total_hours)
    IN  [requirements_design |-> Phase(total, ratios.requirements_design, "requirements_design"),
         development         |-> Phase(total, ratios.development, "development"),
         test                |-> Phase(total, ratios.test, "test"),
         design              |-> Phase(total, ratios.design, "design")]

\* the keys of duration_multipliers and one key that is none of them
Durations == {"1month", "2months", "3months", "4-6months", "6-12months", "1year+", "2weeks"}

\* the keys of user_scale_adjustments and one key that is none of them
UserScales == {"small", "medium", "large", "enterprise", "public", "huge"}

\* the keys of phase_ratios, the category of a request without one
\* ("その他") and another string that is no key
PhaseCategories ==
    {"ec", "business_system", "reservation", "corporate", "default", "other", "blog"}

\* PhaseRatios for every argument the model calls it with, computed once:
\* ratio_table[category][duration][users]
RECURSIVE TabulatedByUsers(_, _, _)
TabulatedByUsers(category, duration, keys) ==
    IF keys = {} THEN << >>
    ELSE LET users == CHOOSE x \in keys : TRUE
         IN  (users :> PhaseRatios(category, duration, users))
             @@ TabulatedByUsers(category, duration, keys \ {users})

RECURSIVE TabulatedByDuration(_, _)
TabulatedByDuration(category, keys) ==
    IF keys = {} THEN << >>
    ELSE LET duration == CHOOSE x \in keys : TRUE
         IN  (duration :> TabulatedByUsers(category, duration, UserScales))
             @@ TabulatedByDuration(category, keys \ {duration})

RECURSIVE TabulatedByCategory(_)
TabulatedByCategory(keys) ==
    IF keys = {} THEN << >>
    ELSE LET category == CHOOSE x \in keys : TRUE
         IN  (category :> TabulatedByDuration(category, Durations))
             @@ TabulatedByCategory(keys \ {category})

ratio_table == TabulatedByCategory(PhaseCategories)

\* calculate_phases_enhanced(total_hours, category, duration, users)
calculate_phases_enhanced(total_hours, category, duration, users) ==
    PhasesFor(total_hours, ratio_table[category][duration][users])

\* feature_mapping of estimate_features_with_requirements: per pattern the
\* terms a description matches it by and the features it contributes.  The
\* feature names are glosses of the Japanese strings of the source; equal
\* strings have equal glosses.
feature_mapping ==
    << [terms    |-> {"ec", "mail_order", "shopping", "product"},
        features |-> <<"product_management", "inventory_management", "payment_system",
                       "customer_management", "order_management">>],
       [terms    |-> {"reservation", "calendar", "schedule", "booking"},
        features |-> <<"reservation_management", "calendar", "notification",
                       "customer_management">>],
       [terms    |-> {"management", "system", "business", "crm", "erp"},
        features |-> <<"data_management", "reporting", "user_management",
                       "permission_management">>],
       [terms    |-> {"site", "homepage", "web"},
        features |-> <<"responsive", "inquiry_form", "cms", "seo">>],
       [terms    |-> {"app", "mobile", "ios", "android"},
        features |-> <<"mobile_support", "push_notification", "offline", "location">>],
       [terms    |-> {"inventory"},
        features |-> <<"stock_movement", "stock_count", "alert", "stocktaking">>],
       [terms    |-> {"customer", "member", "crm"},
        features |-> <<"customer_management", "member_registration", "my_page",
                       "history_management">>],
       [terms    |-> {"payment", "pay"},
        features |-> <<"payment_system", "billing_management", "sales_management",
                       "refund">>],
       [terms    |-> {"analysis", "report", "statistics", "analytics"},
        features |-> <<"data_analysis", "reporting", "dashboard", "kpi_management">>] >>

\* "MVP機能限定"
mvp_marker == "mvp_only"

long_duration_features == <<"advanced_reporting", "workflow_management", "external_integration">>

scale_features ==
    <<"load_distribution", "performance_monitoring", "security_hardening",
      "scaling_support", "redundant_system">>

basic_features ==
    <<"authentication", "admin_screen", "api_integration", "security_measures", "backup">>

\* "pf in f" and "complex_term in f.lower()": the features that contain the
\* priority strings 認証機能, 基本CRUD, 管理画面 and the complexity strings
\* 高度, 複雑, エンタープライズ
containing ==
    [authentication |-> {"authentication"},
     basic_crud     |-> {},
     admin_screen   |-> {"admin_screen", "simple_admin_screen"},
     advanced       |-> {"advanced_reporting"},
     complex        |-> {},
     enterprise     |-> {}]

priority_features == containing.authentication \cup containing.basic_crud
                     \cup containing.admin_screen

complex_features == containing.advanced \cup containing.complex \cup containing.enterprise

\* the elements of a list; the list is evaluated once
Range(list) == UNION {{l[i] : i \in 1..Len(l)} : l \in {list}}

\* list[:n]
Prefix(list, n) == SubSeq(list, 1, Min(n, Len(list)))

\* [f for f in list if keep(f)], keep given as a set; the list and the set
\* are evaluated once
Filter(list, keep) ==
    CHOOSE kept \in {SelectSeq(l, LAMBDA f : f \in k) : l \in {list}, k \in {keep}} : TRUE

\* Lines 238-240: the feature lists of the patterns the description matches
RECURSIVE MappedFeatures(_, _)
MappedFeatures(description, p) ==
    IF p > Len(feature_mapping) THEN << >>
    ELSE (IF description \cap feature_mapping[p].terms /= {}
          THEN feature_mapping[p].features ELSE << >>)
         \o MappedFeatures(description, p + 1)

\* every string that can be in a feature list, numbered: those of
\* feature_mapping, of the duration and scale branches, the basic ones and
\* the additional_features of user_scale_adjustments
FeatureList ==
    <<"product_management", "inventory_management", "payment_system",
      "customer_management", "order_management", "reservation_management",
      "calendar", "notification", "data_management", "reporting",
      "user_management", "permission_management", "responsive", "inquiry_form",
      "cms", "seo", "mobile_support", "push_notification", "offline", "location",
      "stock_movement", "stock_count", "alert", "stocktaking",
      "member_registration", "my_page", "history_management",
      "billing_management", "sales_management", "refund", "data_analysis",
      "dashboard", "kpi_management", "mvp_only", "advanced_reporting",
      "workflow_management", "external_integration", "load_distribution",
      "performance_monitoring", "security_hardening", "scaling_support",
      "redundant_system", "authentication", "admin_screen", "api_integration",
      "security_measures", "backup", "basic_authentication",
      "simple_admin_screen", "load_balancer", "db_optimization", "cache_system",
      "cdn", "redundancy", "monitoring_system", "auto_scaling", "microservices",
      "api_gateway", "backup_system", "ddos_protection", "global_cdn",
      "multilingual", "access_analytics">>

AllFeatures == Range(FeatureList)

\* the slots of the hash table of a set: more than there are strings
Slots == Len(FeatureList) + 4

\* hash(string) of an interpreter whose string hashing is keyed by seed,
\* reduced to a slot; different strings have different slots
Slot(seed, i) == (i * (2 * seed + 3) + 13 * seed) % Slots

\* the strings in the order of their slots
RECURSIVE BySlot(_, _)
BySlot(seed, slot) ==
    IF slot = Slots THEN << >>
    ELSE LET here == {i \in 1..Len(FeatureList) : Slot(seed, i) = slot}
         IN  (IF here = {} THEN << >> ELSE <<FeatureList[CHOOSE i \in here : TRUE]>>)
             \o BySlot(seed, slot + 1)

\* the order in which a set of the interpreter iterates over its strings,
\* one per hash seed (PYTHONHASHSEED is random unless set)
IterationOrders == <<BySlot(1, 0), BySlot(2, 0)>>

HashSeeds == DOMAIN IterationOrders

\* list(set(features)): the distinct strings in the iteration order of the set
ListOfSet(features, seed) == Filter(IterationOrders[seed], Range(features))

\* the limit of "[:15]"
MaxFeatures == 15

\* variant: the list is cut to 5 entries
Truncated_to5(list) == Prefix(list, 5)

\* "[:15]"
Truncated(list) == Prefix(list, MaxFeatures)

\* Lines 242-250: the adjustment of the features by duration
DurationFeatures(features, duration) ==
    IF duration = "1month"
    THEN Append(Prefix(Filter(features, priority_features), 8), mvp_marker)
    ELSE IF duration \in {"4-6months", "6-12months", "1year+"}
         THEN features \o long_duration_features
         ELSE features

\* Lines 252-264: the adjustment of the features by user scale
ScaleFeatures(features, users) ==
    IF users \in {"large", "enterprise", "public"}
    THEN features \o scale_features
    ELSE IF users = "small"
         THEN Filter(features, AllFeatures \ complex_features)
         ELSE features

\* estimate_features_with_requirements(description, duration, users) in an
\* interpreter with the given hash seed
estimate_features_with_requirements(description, duration, users, seed) ==
    Truncated(ListOfSet(
        ScaleFeatures(DurationFeatures(MappedFeatures(description, 1), duration), users)
        \o basic_features, seed))

\* variant: every additional feature of the tier is appended
EstimatedFeatures_every_tag(description, duration, users, seed) ==
    Truncated(ListOfSet(
        estimate_features_with_requirements(description, duration, users, seed)
        \o user_info(users).additional_features, seed))

\* Lines 416-421: the features of the result
EstimatedFeatures(description, duration, users, seed) ==
    Truncated(ListOfSet(
        estimate_features_with_requirements(description, duration, users, seed)
        \o Prefix(user_info(users).additional_features, 3), seed))

(***************************************************************************)
(* State of src/enhanced_main.py                                           *)
(***************************************************************************)
VARIABLES
    estimation_data,   \* module global: the corpus, a sequence of records
    last_update,       \* module global: "None" or the time of load_sample_data
    request,           \* the request being answered, or "None"
    locals,            \* locals of estimate_project_enhanced at its return
    response,          \* what the endpoint returned, or "None"
    hash_seed          \* the string hash seed of the interpreter (PYTHONHASHSEED),
                       \* 0 until the process has started up

estVars == <<estimation_data, last_update, request, locals, response, hash_seed>>

\* one HnaviDataProcessor of src/hnavi_integration.py and its pickle file
VARIABLES
    processed_projects,  \* self.processed_projects: a sequence of projects
    vectorizer,          \* self.vectorizer: None or a TfidfVectorizer
    project_vectors,     \* self.project_vectors: None or the fitted matrix
    pickle_file,         \* processed_hnavi_data.pkl: absent or the saved dict
    search,              \* the arguments of the last find_similar_projects
    results              \* what the last find_similar_projects returned

procVars == <<processed_projects, vectorizer, project_vectors, pickle_file,
              search, results>>

\* the two threads that share the HnaviDataProcessor
VARIABLES
    updater,    \* the thread that changes the corpus: position, locals and
                \* (history) the triple its operation is to install
    finder,     \* the thread that searches: position, locals, what it read
    snapshots,  \* history: the triples the processor held between operations
    updates     \* history: the number of operations the updater has begun

concVars == <<updater, finder, snapshots, updates>>

\* calculate_phases_enhanced called on its own
VARIABLES
    phases_call  \* the arguments, the normalized ratios and the result of
                 \* the call in hand

\* the row processing of load_and_process_data on its own
VARIABLES
    ingest_call  \* the rows pd.read_csv returned and what lines 54-101 make
                 \* of them

\* _remove_duplicates called on its own
VARIABLES
    dedup_call   \* the list passed to _remove_duplicates and the list returned

\* one call of HnaviScraper.fetch_page of src/hnavi_scraper.py
VARIABLES
    fetch        \* position, arguments and locals of the call, and (history)
                 \* the attempts made and the seconds slept

\* one run of main() of src/hnavi_integration.py
VARIABLES
    main_run     \* position in main, what load_processed_data returned and
                 \* (history) the file found, the methods called and how
                 \* _prepare_vectorization and the save ended

pureVars == <<phases_call, ingest_call, dedup_call, fetch, main_run>>


\* no request is being answered
NoRequest  == [description |-> {}, category |-> "None", duration |-> "None", users |-> "None"]
NoLocals   == [raised |-> "None", similarities |-> << >>]
NoResponse == [status |-> 0]

\* bound on the number of terms of a request description
MaxDescTerms == 2

\* the terms request descriptions are made of: keywords that occur in the
\* corpus, a keyword that occurs in no record ("crm") and a term that is
\* no keyword ("beauty")
DescriptionTerms ==
    {"ec", "management", "system", "reservation", "site", "customer",
     "android", "app", "crm", "beauty"}

Descriptions == {d \in SUBSET DescriptionTerms : Cardinality(d) <= MaxDescTerms}

\* the category of a request: missing (None), a key of phase_ratios
\* ("EC・通販") and a string that is no key of it
Categories == {"None", "ec", "blog"}

\* load_sample_data(), called by startup_event of the process; from here on
\* the hash seed the interpreter drew when it started shows in the results
load_sample_data ==
    /\ last_update = "None"
    /\ estimation_data' = SampleData
    /\ last_update' = "now"
    /\ hash_seed' \in HashSeeds
    /\ UNCHANGED <<request, locals, response>>
    /\ UNCHANGED <<procVars, concVars, pureVars>>

\* Lines 374-380: the loop that appends one entry per record of the corpus
RECURSIVE Similarities(_, _, _)
Similarities(description, data, i) ==
    IF i > Len(data) THEN << >>
    ELSE <<[data |-> i,
            similarity |-> calculate_similarity_enhanced(description, data[i])]>>
         \o Similarities(description, data, i + 1)

\* Lines 382-383: similarities.sort(...); top_similar = similarities[:3]
TopSimilar(similarities) ==
    SubSeq(SortDesc(similarities), 1, Min(3, Len(similarities)))

\* "... for s in list if s["similarity"] > 0"
Positive(list) == SelectSeq(list, LAMBDA s : FGt(s.similarity, FZero))

RECURSIVE WeightedValues(_, _, _)
WeightedValues(pos, field, i) ==
    IF i > Len(pos) THEN << >>
    ELSE <<FMul(FFromInt(estimation_data[pos[i].data][field]), pos[i].similarity)>>
         \o WeightedValues(pos, field, i + 1)

RECURSIVE Weights(_, _)
Weights(pos, i) ==
    IF i > Len(pos) THEN << >>
    ELSE <<pos[i].similarity>> \o Weights(pos, i + 1)

\* Lines 386-395: the similarity-weighted mean of the entries with a
\* similarity > 0, and the top similarity as the confidence
WeightedEstimate(top_similar) ==
    LET pos          == Positive(top_similar)
        total_weight == FSum(Weights(pos, 1))
    IN  [estimated_hours |->
             IF FGt(total_weight, FZero)
             THEN FTrunc(FDiv(FSum(WeightedValues(pos, "hours", 1)), total_weight))
             ELSE 400,
         estimated_cost  |->
             IF FGt(total_weight, FZero)
             THEN FTrunc(FDiv(FSum(WeightedValues(pos, "cost", 1)), total_weight))
             ELSE 2000000,
         confidence      |-> top_similar[1].similarity,
         data_source     |-> "sample_database"]

\* Lines 397-401: the default estimate
DefaultEstimate ==
    [estimated_hours |-> 400,
     estimated_cost  |-> 2000000,
     confidence      |-> Lit_0_3,
     data_source     |-> "default_estimate"]

\* variant: the branch of line 385 is taken whatever the top similarity is
BaseEstimate_always_weighted(top_similar) ==
    WeightedEstimate(top_similar)

\* Lines 385-404: the base estimate; top_similar is not empty
BaseEstimate(top_similar) ==
    IF FGt(top_similar[1].similarity, FZero)
    THEN WeightedEstimate(top_similar)
    ELSE DefaultEstimate

\* variant: every entry of top_similar is cited
RECURSIVE SimilarProjects_all(_, _)
SimilarProjects_all(top, i) ==
    IF i > Len(top) THEN << >>
    ELSE <<[title      |-> estimation_data[top[i].data].title,
            hours      |-> estimation_data[top[i].data].hours,
            cost       |-> estimation_data[top[i].data].cost,
            similarity |-> FormatPercent(top[i].similarity)]>>
         \o SimilarProjects_all(top, i + 1)

\* Lines 427-438: the projects cited in the result
RECURSIVE SimilarProjects(_, _)
SimilarProjects(top, i) ==
    IF i > Len(top) THEN << >>
    ELSE (IF FGt(top[i].similarity, FZero)
          THEN <<[title      |-> estimation_data[top[i].data].title,
                  hours      |-> estimation_data[top[i].data].hours,
                  cost       |-> estimation_data[top[i].data].cost,
                  similarity |-> FormatPercent(top[i].similarity)]>>
          ELSE << >>)
         \o SimilarProjects(top, i + 1)

\* Lines 371-404 and 427-438: what the handler computes from the description
\* alone.  top_similar[0] of an empty list raises IndexError.
HandlerLocals(description) ==
    LET similarities == Similarities(description, estimation_data, 1)
        top_similar  == TopSimilar(similarities)
    IN  IF top_similar = << >>
        THEN [raised |-> "IndexError", similarities |-> similarities]
        ELSE [raised           |-> "None",
              similarities     |-> similarities,
              top_similar      |-> top_similar,
              similar_projects |-> SimilarProjects(top_similar, 1)]
             @@ BaseEstimate(top_similar)

\* variant: the confidence is reported unscaled
HandlerResult_unscaled(l, duration, users) ==
    IF l.raised /= "None"
    THEN [status |-> 500]
    ELSE [status           |-> 200,
          total_hours      |-> calculate_duration_impact(duration, l.estimated_hours),
          total_cost       |-> calculate_user_scale_impact(users, l.estimated_cost),
          similar_projects |-> l.similar_projects,
          confidence_score |-> l.confidence,
          data_source      |-> [source         |-> l.data_source,
                                duration       |-> duration,
                                infrastructure |-> user_info(users).infrastructure]]

\* Lines 406-452: the adjustments and the result; the except clause of lines
\* 454-456 turns any exception into HTTP 500
HandlerResult(l, duration, users) ==
    IF l.raised /= "None"
    THEN [status |-> 500]
    ELSE [status           |-> 200,
          total_hours      |-> calculate_duration_impact(duration, l.estimated_hours),
          total_cost       |-> calculate_user_scale_impact(users, l.estimated_cost),
          similar_projects |-> l.similar_projects,
          confidence_score |-> FMul(l.confidence, Lit_0_9),
          data_source      |-> [source         |-> l.data_source,
                                duration       |-> duration,
                                infrastructure |-> user_info(users).infrastructure]]

\* Line 424: request.category or "その他"
estimated_category(category) == IF category = "None" THEN "other" ELSE category

\* Lines 416-426 and 442-444: the features and the phases, added to the
\* result
WithFeaturesAndPhases(result, req, seed) ==
    result @@
    [estimated_features |->
         EstimatedFeatures(req.description, req.duration, req.users, seed),
     phases |->
         calculate_phases_enhanced(result.total_hours,
                                   estimated_category(req.category),
                                   req.duration, req.users)]

\* variant: an exception leaves a result with the fields computed so far
EstimationResult_partial(l, req, seed) ==
    IF l.raised /= "None"
    THEN [status |-> 200, similarities |-> l.similarities]
    ELSE WithFeaturesAndPhases(HandlerResult(l, req.duration, req.users), req, seed)

\* Lines 406-456: the result of the handler with its feature list and its
\* phase map
EstimationResult(l, req, seed) ==
    IF l.raised /= "None"
    THEN [status |-> 500]
    ELSE WithFeaturesAndPhases(HandlerResult(l, req.duration, req.users), req, seed)

\* POST /api/estimate: estimate_project_enhanced(request).  The handler has no
\* await: it runs to its return without interleaving.
estimate_project_enhanced ==
    /\ response = NoResponse
    /\ \E description \in Descriptions :
         /\ locals' = HandlerLocals(description)
         /\ \E category \in Categories, duration \in Durations, users \in UserScales :
              /\ request' = [description |-> description, category |-> category,
                             duration |-> duration, users |-> users]
              /\ response' = EstimationResult(locals', request', hash_seed)
    /\ UNCHANGED <<estimation_data, last_update, hash_seed>>
    /\ UNCHANGED <<procVars, concVars, pureVars>>

\* the response is delivered; the endpoint is ready for the next request
Deliver ==
    /\ response /= NoResponse
    /\ request' = NoRequest
    /\ locals' = NoLocals
    /\ response' = NoResponse
    /\ UNCHANGED <<estimation_data, last_update, hash_seed>>
    /\ UNCHANGED <<procVars, concVars, pureVars>>

(***************************************************************************)
(* calculate_phases_enhanced called on its own                             *)
(***************************************************************************)
NoPhasesCall == [total_hours |-> -1]

\* total hours a phase map is asked for
TotalHours == {0, 1, 47, 100, 400, 880, 1175, 2000}

\* the frame of a call of calculate_phases_enhanced: its arguments, its local
\* ratios after line 335 and its result
PhasesCall(total_hours, category, duration, users, ratios) ==
    [total_hours |-> total_hours,
     category    |-> category,
     duration    |-> duration,
     users       |-> users,
     ratios      |-> ratios,
     phases      |-> PhasesFor(total_hours, ratios)]

\* a call of calculate_phases_enhanced
CallCalculatePhases ==
    /\ phases_call = NoPhasesCall
    /\ \E total_hours \in TotalHours, category \in PhaseCategories,
          duration \in Durations, users \in UserScales :
         phases_call' = PhasesCall(total_hours, category, duration, users,
                                   ratio_table[category][duration][users])
    /\ UNCHANGED <<estVars, procVars, concVars, ingest_call, dedup_call, fetch, main_run>>

\* the call returns
ReturnPhases ==
    /\ phases_call /= NoPhasesCall
    /\ phases_call' = NoPhasesCall
    /\ UNCHANGED <<estVars, procVars, concVars, ingest_call, dedup_call, fetch, main_run>>

InitPhases == phases_call = NoPhasesCall

NextPhases ==
    \/ CallCalculatePhases
    \/ ReturnPhases

(***************************************************************************)
(* State of src/hnavi_integration.py: one HnaviDataProcessor and the pickle *)
(* file it saves to and loads from                                         *)
(***************************************************************************)
None == [kind |-> "None"]

\* a TfidfVectorizer fitted on a list of descriptions; its vocabulary and idf
\* weights are a function of that list
TfidfVectorizer(descriptions) == [kind |-> "TfidfVectorizer", fitted_on |-> descriptions]

\* the matrix fit_transform returns: row i is the vector of descriptions[i]
Matrix(descriptions) == [kind |-> "matrix", rows |-> descriptions]

NoFile == [kind |-> "absent"]

\* no search is waiting for its caller to take the result
NoSearch == [top_k |-> -1, similarities |-> << >>, failed |-> FALSE, raised |-> FALSE]

\* the five projects of _generate_sample_data
sample_projects ==
    <<[title |-> "ec_site", company_name |-> "ec_solution"],
      [title |-> "business_system", company_name |-> "business_systems"],
      [title |-> "reservation_system", company_name |-> "reserve_tech"],
      [title |-> "corporate_site", company_name |-> "web_create"],
      [title |-> "mobile_app", company_name |-> "mobile_develop"]>>

\* the projects the rows of a CSV file may yield, given by title and company
\* name
CsvProjects ==
    {[title |-> "csv_a", company_name |-> "company_a"],
     [title |-> "csv_b", company_name |-> "company_b"]}

\* bound on the number of projects the rows of the CSV file yield
MaxCsvProjects == 2

RECURSIVE SeqsUpTo(_, _)
SeqsUpTo(S, n) ==
    IF n = 0 THEN {<< >>}
    ELSE LET shorter == SeqsUpTo(S, n - 1)
         IN  shorter \cup {Append(q, x) : q \in shorter, x \in S}

\* what the CSV file may be when load_and_process_data runs: absent,
\* unreadable (pd.read_csv or the processing raises), or rows that yield a
\* list of projects, possibly none and possibly with repetitions
CsvStates ==
    {[kind |-> "absent"], [kind |-> "unreadable"]}
    \cup {[kind |-> "rows", projects |-> q] : q \in SeqsUpTo(CsvProjects, MaxCsvProjects)}

\* line 376: key = f"{project.title}_{project.company_name}"
key(project) == project.title \o "_" \o project.company_name

\* _remove_duplicates(projects): the first project of every key, in order;
\* the keys seen are those of unique_projects
RECURSIVE remove_duplicates(_)
remove_duplicates(projects) ==
    IF projects = << >> THEN << >>
    ELSE LET unique_projects == remove_duplicates(SubSeq(projects, 1, Len(projects) - 1))
             project         == projects[Len(projects)]
         IN  IF \E i \in 1..Len(unique_projects) : key(unique_projects[i]) = key(project)
             THEN unique_projects
             ELSE Append(unique_projects, project)

\* the projects _remove_duplicates is called on: by title, company name and
\* the price that tells two projects of the same title and company apart
DedupProjects ==
    [title : {"ec", "ec_site"}, company_name : {"tech", "site_tech"}, avg_price : {100, 300}]

\* bound on the length of the list passed to _remove_duplicates
MaxDedupLen == 3

NoDedupCall == [projects |-> << >>, returned |-> <<"None">>]

\* _remove_duplicates(projects)
CallRemoveDuplicates ==
    /\ dedup_call = NoDedupCall
    /\ \E projects \in SeqsUpTo(DedupProjects, MaxDedupLen) :
         dedup_call' = [projects |-> projects, returned |-> remove_duplicates(projects)]
    /\ UNCHANGED <<estVars, procVars, concVars, phases_call, ingest_call, fetch, main_run>>

\* the call returns
ReturnDeduplicated ==
    /\ dedup_call /= NoDedupCall
    /\ dedup_call' = NoDedupCall
    /\ UNCHANGED <<estVars, procVars, concVars, phases_call, ingest_call, fetch, main_run>>

InitDedup == dedup_call = NoDedupCall

NextDedup ==
    \/ CallRemoveDuplicates
    \/ ReturnDeduplicated

\* the index after _prepare_vectorization() on a list of projects, given
\* what it was before; fit_ok: fit_transform does not raise
PreparedIndex(projects, old, fit_ok) ==
    IF projects = << >>
    THEN old
    ELSE IF fit_ok
         THEN [vectorizer |-> TfidfVectorizer(projects), project_vectors |-> Matrix(projects)]
         ELSE [vectorizer |-> None, project_vectors |-> None]

CurrentIndex == [vectorizer |-> vectorizer, project_vectors |-> project_vectors]

\* self.processed_projects = projects; self._prepare_vectorization()
SetProjectsAndPrepare(projects, fit_ok) ==
    /\ processed_projects' = projects
    /\ vectorizer' = PreparedIndex(projects, CurrentIndex, fit_ok).vectorizer
    /\ project_vectors' = PreparedIndex(projects, CurrentIndex, fit_ok).project_vectors

\* _prepare_vectorization()
prepare_vectorization ==
    /\ search = NoSearch
    /\ \E fit_ok \in BOOLEAN :
         SetProjectsAndPrepare(processed_projects, fit_ok)
    /\ UNCHANGED <<pickle_file, search, results>>
    /\ UNCHANGED <<estVars, pureVars, concVars>>

\* _generate_sample_data()
generate_sample_data ==
    /\ search = NoSearch
    /\ \E fit_ok \in BOOLEAN :
         SetProjectsAndPrepare(sample_projects, fit_ok)
    /\ UNCHANGED <<pickle_file, search, results>>
    /\ UNCHANGED <<estVars, pureVars, concVars>>

\* load_and_process_data()
load_and_process_data ==
    /\ search = NoSearch
    /\ \E csv \in CsvStates, fit_ok \in BOOLEAN :
         IF csv.kind = "rows"
         THEN SetProjectsAndPrepare(remove_duplicates(csv.projects), fit_ok)
         ELSE SetProjectsAndPrepare(sample_projects, fit_ok)
    /\ UNCHANGED <<pickle_file, search, results>>
    /\ UNCHANGED <<estVars, pureVars, concVars>>

\* save_processed_data()
save_processed_data ==
    /\ search = NoSearch
    /\ pickle_file' = [kind            |-> "dict",
                       projects        |-> processed_projects,
                       vectorizer      |-> vectorizer,
                       project_vectors |-> project_vectors]
    /\ UNCHANGED <<processed_projects, vectorizer, project_vectors, search, results>>
    /\ UNCHANGED <<estVars, pureVars, concVars>>

\* (self.processed_projects, self.vectorizer, self.project_vectors)
Triple ==
    [processed_projects |-> processed_projects,
     vectorizer         |-> vectorizer,
     project_vectors    |-> project_vectors]

\* lines 538-554: what load_processed_data returns on a file and the triple
\* it leaves, given the triple before the call.  The three assignments of
\* lines 545-547 run in order until a key is missing; the except clause of
\* line 552 undoes none of them.
Loaded(file, old) ==
    IF file.kind /= "dict" \/ "projects" \notin DOMAIN file
    THEN [returned |-> FALSE, triple |-> old]
    ELSE IF "vectorizer" \notin DOMAIN file
    THEN [returned |-> FALSE,
          triple   |-> [old EXCEPT !.processed_projects = file.projects]]
    ELSE IF "project_vectors" \notin DOMAIN file
    THEN [returned |-> FALSE,
          triple   |-> [old EXCEPT !.processed_projects = file.projects,
                                   !.vectorizer = file.vectorizer]]
    ELSE [returned |-> TRUE,
          triple   |-> [processed_projects |-> file.projects,
                        vectorizer         |-> file.vectorizer,
                        project_vectors    |-> file.project_vectors]]

\* load_processed_data()
load_processed_data ==
    /\ search = NoSearch
    /\ processed_projects' = Loaded(pickle_file, Triple).triple.processed_projects
    /\ vectorizer' = Loaded(pickle_file, Triple).triple.vectorizer
    /\ project_vectors' = Loaded(pickle_file, Triple).triple.project_vectors
    /\ UNCHANGED <<pickle_file, search, results>>
    /\ UNCHANGED <<estVars, pureVars, concVars>>


(***************************************************************************)
(* load_and_process_data, lines 54-101: the rows of the CSV file, read by   *)
(* pd.read_csv, made into projects.  A cell is given by its kind: pandas    *)
(* reads an empty cell as NaN (a float), a column of numbers and empty      *)
(* cells as floats, and a column with any text in it as strings.            *)
(***************************************************************************)
RowCompanies == <<"company_a", "company_b">>

\* services: a string with one service, an empty cell, a number
\* min_price: a positive number, an empty cell, text that is no number
\* price_context: a text of 5 characters or more that holds the service
\* name ("match") or does not ("other"), or an empty cell
Rows ==
    [company_name  : Range(RowCompanies),
     services      : {"text", "missing", "number"},
     min_price     : {"number", "missing", "text"},
     price_context : {"match", "other", "missing"}]

\* bound on the number of rows of the CSV file
MaxRows == 2

\* a column that holds text anywhere holds no float but NaN
ColumnsTyped(rows) ==
    ~ \E i, j \in 1..Len(rows) :
         rows[i].services = "text" /\ rows[j].services = "number"

\* the row lists pd.read_csv may return
Batches == {rows \in SeqsUpTo(Rows, MaxRows) : ColumnsTyped(rows)}

\* _parse_services(services_str): NaN gives [], a float has no split()
parse_services(services_str) ==
    CASE services_str = "missing" -> [raised |-> FALSE, services |-> << >>]
      [] services_str = "text"    -> [raised |-> FALSE, services |-> <<"service">>]
      [] services_str = "number"  -> [raised |-> TRUE]

\* _extract_price_ranges(group): a row without a price is passed over, and
\* so is a row whose price float() rejects (ValueError, line 154)
RECURSIVE extract_price_ranges(_)
extract_price_ranges(group) ==
    IF group = << >> THEN << >>
    ELSE (IF Head(group).min_price = "number"
          THEN <<[context |-> Head(group).price_context]>>
          ELSE << >>)
         \o extract_price_ranges(Tail(group))

\* _find_suitable_price_for_service(service, price_ranges): the first range
\* whose context holds the service name, else the first range, else None;
\* NaN has no lower(): AttributeError
RECURSIVE find_suitable_price_from(_, _)
find_suitable_price_from(price_ranges, i) ==
    IF i > Len(price_ranges)
    THEN [raised |-> FALSE,
          price  |-> IF price_ranges = << >> THEN "default" ELSE price_ranges[1].context]
    ELSE CASE price_ranges[i].context = "missing" -> [raised |-> TRUE]
           [] price_ranges[i].context = "match"   -> [raised |-> FALSE, price |-> "match"]
           [] price_ranges[i].context = "other"   -> find_suitable_price_from(price_ranges, i + 1)

\* _create_project_from_service: the project, or None when its body raises
create_project_from_service(service, company_name, price_ranges) ==
    IF find_suitable_price_from(price_ranges, 1).raised
    THEN None
    ELSE [title |-> service \o "_development", company_name |-> company_name]

\* _create_project_from_price: None for a context that is empty or short;
\* len(NaN) raises TypeError, which the function turns into None
create_project_from_price(price_info, company_name) ==
    IF price_info.context = "missing"
    THEN None
    ELSE [title |-> price_info.context \o "_context", company_name |-> company_name]

\* lines 76-88: the projects of one company, None left out
RECURSIVE ServiceProjects(_, _, _)
ServiceProjects(services, company_name, price_ranges) ==
    IF services = << >> THEN << >>
    ELSE LET project == create_project_from_service(Head(services), company_name, price_ranges)
         IN  (IF project /= None THEN <<project>> ELSE << >>)
             \o ServiceProjects(Tail(services), company_name, price_ranges)

RECURSIVE PriceProjects(_, _)
PriceProjects(price_ranges, company_name) ==
    IF price_ranges = << >> THEN << >>
    ELSE LET project == create_project_from_price(Head(price_ranges), company_name)
         IN  (IF project /= None THEN <<project>> ELSE << >>)
             \o PriceProjects(Tail(price_ranges), company_name)

\* df.groupby('company_name'): the rows of one company, in file order
Group(rows, company_name) == SelectSeq(rows, LAMBDA row : row.company_name = company_name)

\* lines 61-88 for one company: company_info is the first row of the group
GroupProjects(group) ==
    LET company_info == group[1]
        parsed       == parse_services(company_info.services)
        price_ranges == extract_price_ranges(group)
    IN  IF parsed.raised
        THEN [raised |-> TRUE]
        ELSE [raised   |-> FALSE,
              projects |-> ServiceProjects(parsed.services, company_info.company_name,
                                           price_ranges)
                           \o PriceProjects(price_ranges, company_info.company_name)]

\* the loop of line 61 over the companies, in the order of their names
RECURSIVE AllGroupProjects(_, _)
AllGroupProjects(rows, c) ==
    IF c > Len(RowCompanies) THEN [raised |-> FALSE, projects |-> << >>]
    ELSE LET group == Group(rows, RowCompanies[c])
             rest  == AllGroupProjects(rows, c + 1)
         IN  IF group = << >> THEN rest
             ELSE IF GroupProjects(group).raised \/ rest.raised
                  THEN [raised |-> TRUE]
                  ELSE [raised   |-> FALSE,
                        projects |-> GroupProjects(group).projects \o rest.projects]

\* lines 54-101: the projects of the rows, or, when an exception reaches the
\* except clause of line 99, the sample data
ProcessedRows(rows) ==
    IF AllGroupProjects(rows, 1).raised
    THEN [kind |-> "unreadable"]
    ELSE [kind |-> "rows", projects |-> remove_duplicates(AllGroupProjects(rows, 1).projects)]

NoIngestCall == [rows |-> << >>, csv |-> [kind |-> "None"]]

\* load_and_process_data on a CSV file with the given rows, up to line 90
ProcessRows ==
    /\ ingest_call = NoIngestCall
    /\ \E rows \in Batches :
         ingest_call' = [rows |-> rows, csv |-> ProcessedRows(rows)]
    /\ UNCHANGED <<estVars, procVars, concVars, phases_call, dedup_call, fetch, main_run>>

\* the call returns
ReturnRows ==
    /\ ingest_call /= NoIngestCall
    /\ ingest_call' = NoIngestCall
    /\ UNCHANGED <<estVars, procVars, concVars, phases_call, dedup_call, fetch, main_run>>

InitIngest == ingest_call = NoIngestCall

NextIngest ==
    \/ ProcessRows
    \/ ReturnRows

(***************************************************************************)
(* main() of src/hnavi_integration.py, lines 585-617, statement by         *)
(* statement, on a new HnaviDataProcessor and whatever file                 *)
(* processed_hnavi_data.pkl is at the start                                *)
(***************************************************************************)
\* the dict save_processed_data pickles (lines 522-526)
SnapshotOf(triple) ==
    [kind            |-> "dict",
     projects        |-> triple.processed_projects,
     vectorizer      |-> triple.vectorizer,
     project_vectors |-> triple.project_vectors]

\* the corpora a file found at the start may hold
SavedCorpora == {<< >>, sample_projects} \cup {<<project>> : project \in CsvProjects}

\* the triples a processor may have held when the file was written: with the
\* index fitted on the corpus, or without an index
SavedTriples ==
    {[processed_projects |-> corpus, vectorizer |-> None, project_vectors |-> None] :
        corpus \in SavedCorpora}
    \cup {[processed_projects |-> corpus,
           vectorizer         |-> TfidfVectorizer(corpus),
           project_vectors    |-> Matrix(corpus)] : corpus \in SavedCorpora \ {<< >>}}

SnapshotKeys == {"projects", "vectorizer", "project_vectors"}

\* the file at the start of main(): absent, bytes pickle.load raises on, or a
\* pickled dict with all or some of the three keys
SnapshotFiles ==
    {NoFile, [kind |-> "unreadable"]}
    \cup {[field \in {"kind"} \cup keys |-> SnapshotOf(triple)[field]] :
            triple \in SavedTriples, keys \in SUBSET SnapshotKeys}

\* lines 385-408: how _prepare_vectorization ends on a list of projects
PrepareOutcome(projects, fit_ok) ==
    IF projects = << >> THEN "returned_at_line_386"
    ELSE IF fit_ok THEN "fitted"
    ELSE "fit_error_logged"

NoMainRun ==
    [pc |-> "idle", found |-> NoFile, loaded |-> FALSE, calls |-> << >>,
     prepared |-> "None", saved |-> "None"]

\* line 589: processor = HnaviDataProcessor()
StartMain ==
    /\ main_run.pc = "idle"
    /\ \E file \in SnapshotFiles :
         /\ pickle_file' = file
         /\ main_run' = [NoMainRun EXCEPT !.pc = "line_592", !.found = file]
    /\ processed_projects' = << >>
    /\ vectorizer' = None
    /\ project_vectors' = None
    /\ UNCHANGED <<search, results>>
    /\ UNCHANGED <<estVars, concVars, phases_call, ingest_call, dedup_call, fetch>>

\* variant: main() goes on to the export whatever the load returned
AfterLoad_export(returned) == "line_598"

\* the branch main() takes on what load_processed_data returned (line 592)
AfterLoad(returned) == IF returned THEN "line_598" ELSE "line_594"

\* line 592: if not processor.load_processed_data()
MainLoad ==
    /\ main_run.pc = "line_592"
    /\ processed_projects' = Loaded(pickle_file, Triple).triple.processed_projects
    /\ vectorizer' = Loaded(pickle_file, Triple).triple.vectorizer
    /\ project_vectors' = Loaded(pickle_file, Triple).triple.project_vectors
    /\ main_run' = [main_run EXCEPT
                      !.pc = AfterLoad(Loaded(pickle_file, Triple).returned),
                      !.loaded = Loaded(pickle_file, Triple).returned,
                      !.calls = Append(@, "load_processed_data")]
    /\ UNCHANGED <<pickle_file, search, results>>
    /\ UNCHANGED <<estVars, concVars, phases_call, ingest_call, dedup_call, fetch>>

\* line 594: processed_projects = processor.load_and_process_data()
MainRebuild ==
    /\ main_run.pc = "line_594"
    /\ \E csv \in CsvStates, fit_ok \in BOOLEAN :
         /\ IF csv.kind = "rows"
            THEN SetProjectsAndPrepare(remove_duplicates(csv.projects), fit_ok)
            ELSE SetProjectsAndPrepare(sample_projects, fit_ok)
         /\ main_run' = [main_run EXCEPT
                           !.pc = "line_595",
                           !.calls = Append(@, "load_and_process_data"),
                           !.prepared = PrepareOutcome(processed_projects', fit_ok)]
    /\ UNCHANGED <<pickle_file, search, results>>
    /\ UNCHANGED <<estVars, concVars, phases_call, ingest_call, dedup_call, fetch>>

\* how the try block of save_processed_data may end (lines 521-534): the dict
\* is written, open() raises and the file stays, or pickle.dump raises after
\* open() has truncated the file
SaveOutcomes == {"saved", "open_failed", "dump_failed"}

FileAfterSave(outcome, file, triple) ==
    IF outcome = "saved" THEN SnapshotOf(triple)
    ELSE IF outcome = "open_failed" THEN file
    ELSE [kind |-> "unreadable"]

\* line 595: processor.save_processed_data()
MainSave ==
    /\ main_run.pc = "line_595"
    /\ \E outcome \in SaveOutcomes :
         /\ pickle_file' = FileAfterSave(outcome, pickle_file, Triple)
         /\ main_run' = [main_run EXCEPT
                           !.pc = "line_598",
                           !.calls = Append(@, "save_processed_data"),
                           !.saved = outcome]
    /\ UNCHANGED <<processed_projects, vectorizer, project_vectors, search, results>>
    /\ UNCHANGED <<estVars, concVars, phases_call, ingest_call, dedup_call, fetch>>

\* lines 598-617: export_for_estimation_api() and the test searches, which
\* read the processor and write hnavi_estimation_data.json and the log
MainExport ==
    /\ main_run.pc = "line_598"
    /\ main_run' = [main_run EXCEPT
                      !.pc = "done",
                      !.calls = Append(@, "export_for_estimation_api")]
    /\ UNCHANGED <<estVars, procVars, concVars, phases_call, ingest_call, dedup_call,
                   fetch>>

\* main() returns
MainExit ==
    /\ main_run.pc = "done"
    /\ main_run' = NoMainRun
    /\ UNCHANGED <<estVars, procVars, concVars, phases_call, ingest_call, dedup_call,
                   fetch>>

InitMain == main_run = NoMainRun

NextMain ==
    \/ StartMain
    \/ MainLoad
    \/ MainRebuild
    \/ MainSave
    \/ MainExport
    \/ MainExit

\* the cosine similarities a query may have to a row, in thousandths: at the
\* minimum similarity and two values above it
Scores == {100, 300, 700}

\* "similarities[idx] > 0.1", in thousandths
MinSimilarity == 100

\* bound on the top_k of a search
MaxTopK == 6

TopKs == 0..MaxTopK

\* similarities.argsort() restricted to the indices S: every order of S that
\* is ascending by similarity; the order of equal similarities is not
\* defined by the sort
RECURSIVE argsort(_, _)
argsort(similarities, S) ==
    IF S = {} THEN {<< >>}
    ELSE UNION { {<<i>> \o rest : rest \in argsort(similarities, S \ {i})} :
                 i \in {j \in S : \A k \in S : similarities[j] <= similarities[k]} }

\* a[-top_k:] of Python: the last top_k elements, the whole of a when top_k
\* is 0 (a[-0:] is a[0:]) or exceeds its length
LastK(a, top_k) ==
    IF top_k = 0 \/ top_k >= Len(a) THEN a
    ELSE SubSeq(a, Len(a) - top_k + 1, Len(a))

\* a[::-1]
RECURSIVE Reverse(_)
Reverse(a) ==
    IF a = << >> THEN << >> ELSE Append(Reverse(Tail(a)), Head(a))

\* Lines 426-429: the loop over top_indices.  projects[idx] raises IndexError
\* when the list is shorter than the matrix.
RECURSIVE CollectResults(_, _, _)
CollectResults(top_indices, similarities, projects) ==
    IF top_indices = << >> THEN [raised |-> FALSE, results |-> << >>]
    ELSE LET idx  == Head(top_indices)
             rest == CollectResults(Tail(top_indices), similarities, projects)
         IN  IF similarities[idx] > MinSimilarity
             THEN IF idx > Len(projects) \/ rest.raised
                  THEN [raised |-> TRUE, results |-> << >>]
                  ELSE [raised  |-> FALSE,
                        results |-> <<[project |-> projects[idx],
                                       score   |-> similarities[idx]]>>
                                    \o rest.results]
             ELSE rest

\* variant: the top indices are not reversed
SearchResults_ascending(similarities, order, top_k, projects) ==
    CollectResults(LastK(order, top_k), similarities, projects).results

\* Lines 417-431: the try block on a ready index
TryBlock(similarities, order, top_k, projects) ==
    CollectResults(Reverse(LastK(order, top_k)), similarities, projects)

\* variant: the exception of the try block reaches the caller
ExceptClause_reraise(tried) == tried

\* Lines 433-435: "except Exception" logs and returns []
ExceptClause(tried) ==
    IF tried.raised THEN [raised |-> FALSE, results |-> << >>] ELSE tried

\* Lines 417-435: the search on a ready index; an exception returns []
SearchResults(similarities, order, top_k, projects) ==
    ExceptClause(TryBlock(similarities, order, top_k, projects)).results

\* variant: a search on a processor without an index fits one first
find_similar_projects_fitting ==
    /\ search = NoSearch
    /\ \E top_k \in TopKs :
         search' = [top_k |-> top_k, similarities |-> << >>,
                    failed |-> FALSE, raised |-> FALSE]
    /\ results' = << >>
    /\ vectorizer' = TfidfVectorizer(processed_projects)
    /\ project_vectors' = Matrix(processed_projects)
    /\ UNCHANGED <<processed_projects, pickle_file>>
    /\ UNCHANGED <<estVars, pureVars, concVars>>

\* find_similar_projects(query, top_k); the query is given by its cosine
\* similarity to every row of the matrix
find_similar_projects ==
    /\ search = NoSearch
    /\ \E top_k \in TopKs :
         IF vectorizer = None \/ project_vectors = None
         THEN /\ search' = [top_k |-> top_k, similarities |-> << >>,
                             failed |-> FALSE, raised |-> FALSE]
              /\ results' = << >>
         ELSE \E similarities \in [1..Len(project_vectors.rows) -> Scores] :
                \E order \in argsort(similarities, 1..Len(project_vectors.rows)) :
                   /\ search' =
                         [top_k        |-> top_k,
                          similarities |-> similarities,
                          failed       |-> TryBlock(similarities, order, top_k,
                                                    processed_projects).raised,
                          raised       |-> ExceptClause(
                                               TryBlock(similarities, order, top_k,
                                                        processed_projects)).raised]
                   /\ results' = SearchResults(similarities, order, top_k,
                                               processed_projects)
    /\ UNCHANGED <<processed_projects, vectorizer, project_vectors, pickle_file>>
    /\ UNCHANGED <<estVars, pureVars, concVars>>

\* the caller has taken the result of the search
ReturnResults ==
    /\ search /= NoSearch
    /\ search' = NoSearch
    /\ results' = << >>
    /\ UNCHANGED <<processed_projects, vectorizer, project_vectors, pickle_file>>
    /\ UNCHANGED <<estVars, pureVars, concVars>>

(***************************************************************************)
(* Two threads on one HnaviDataProcessor: one runs the operations that     *)
(* change the corpus, one runs find_similar_projects.  The class has no    *)
(* lock; a thread switch can happen between any two statements.            *)
(***************************************************************************)
\* bound on the number of operations the updater begins
MaxUpdates == 2

\* bound on the number of rows of one search that pass the minimum similarity
MaxHits == 2

\* a TfidfVectorizer that was constructed and not fitted yet
Unfitted == [kind |-> "TfidfVectorizer", unfitted |-> TRUE]

UpdaterIdle == [pc |-> "idle"]

FinderIdle == [pc |-> "idle", seen |-> {}, top_indices |-> << >>]

\* the sequences of at most n distinct indices out of S
RECURSIVE DistinctSeqs(_, _)
DistinctSeqs(S, n) ==
    IF n = 0 THEN {<< >>}
    ELSE LET shorter == DistinctSeqs(S, n - 1)
         IN  shorter \cup UNION { {Append(q, x) : x \in S \ {q[i] : i \in 1..Len(q)}} :
                                   q \in shorter }

\* the updater calls load_and_process_data() or _generate_sample_data()
BeginRebuild ==
    /\ updater.pc = "idle"
    /\ updates < MaxUpdates
    /\ updates' = updates + 1
    /\ \E csv \in CsvStates, fit_ok \in BOOLEAN :
         LET projects == IF csv.kind = "rows"
                         THEN remove_duplicates(csv.projects)
                         ELSE sample_projects
         IN  updater' = [pc       |-> "assign_projects",
                         projects |-> projects,
                         fit_ok   |-> fit_ok,
                         target   |-> [processed_projects |-> projects]
                                      @@ PreparedIndex(projects, CurrentIndex, fit_ok)]
    /\ UNCHANGED <<processed_projects, vectorizer, project_vectors, pickle_file,
                   finder, snapshots>>
    /\ UNCHANGED <<estVars, pureVars, search, results>>

\* the operation of the updater has returned
EndUpdate(triple) ==
    /\ updater' = UpdaterIdle
    /\ snapshots' = snapshots \cup {triple}

\* Line 93 or 514: self.processed_projects = ...; then line 384 of
\* _prepare_vectorization, which returns when the list is empty
AssignProjects ==
    /\ updater.pc = "assign_projects"
    /\ processed_projects' = updater.projects
    /\ IF updater.projects = << >>
       THEN EndUpdate([Triple EXCEPT !.processed_projects = updater.projects])
       ELSE /\ updater' = [updater EXCEPT !.pc = "new_vectorizer"]
            /\ UNCHANGED snapshots
    /\ UNCHANGED <<vectorizer, project_vectors, pickle_file, finder, updates>>
    /\ UNCHANGED <<estVars, pureVars, search, results>>

\* Line 395: self.vectorizer = TfidfVectorizer(...)
NewVectorizer ==
    /\ updater.pc = "new_vectorizer"
    /\ vectorizer' = Unfitted
    /\ updater' = [updater EXCEPT !.pc = "fit"]
    /\ UNCHANGED <<processed_projects, project_vectors, pickle_file, finder,
                   snapshots, updates>>
    /\ UNCHANGED <<estVars, pureVars, search, results>>

\* Line 403, right-hand side: fit_transform fits the vectorizer in place
Fit ==
    /\ updater.pc = "fit"
    /\ IF updater.fit_ok
       THEN /\ vectorizer' = TfidfVectorizer(updater.projects)
            /\ updater' = [updater EXCEPT !.pc = "assign_vectors"]
       ELSE /\ UNCHANGED vectorizer
            /\ updater' = [updater EXCEPT !.pc = "reset_vectorizer"]
    /\ UNCHANGED <<processed_projects, project_vectors, pickle_file, finder,
                   snapshots, updates>>
    /\ UNCHANGED <<estVars, pureVars, search, results>>

\* Line 403, assignment: self.project_vectors = ...
AssignVectors ==
    /\ updater.pc = "assign_vectors"
    /\ project_vectors' = Matrix(updater.projects)
    /\ EndUpdate([Triple EXCEPT !.project_vectors = Matrix(updater.projects)])
    /\ UNCHANGED <<processed_projects, vectorizer, pickle_file, finder, updates>>
    /\ UNCHANGED <<estVars, pureVars, search, results>>

\* Line 407: self.vectorizer = None
ResetVectorizer ==
    /\ updater.pc = "reset_vectorizer"
    /\ vectorizer' = None
    /\ updater' = [updater EXCEPT !.pc = "reset_vectors"]
    /\ UNCHANGED <<processed_projects, project_vectors, pickle_file, finder,
                   snapshots, updates>>
    /\ UNCHANGED <<estVars, pureVars, search, results>>

\* Line 408: self.project_vectors = None
ResetVectors ==
    /\ updater.pc = "reset_vectors"
    /\ project_vectors' = None
    /\ EndUpdate([Triple EXCEPT !.project_vectors = None])
    /\ UNCHANGED <<processed_projects, vectorizer, pickle_file, finder, updates>>
    /\ UNCHANGED <<estVars, pureVars, search, results>>

\* the updater calls save_processed_data(); only the updater writes the
\* fields, so what it pickles is the triple of this moment
Save ==
    /\ updater.pc = "idle"
    /\ pickle_file' = [kind            |-> "dict",
                       projects        |-> processed_projects,
                       vectorizer      |-> vectorizer,
                       project_vectors |-> project_vectors]
    /\ UNCHANGED <<processed_projects, vectorizer, project_vectors, concVars>>
    /\ UNCHANGED <<estVars, pureVars, search, results>>

\* the updater calls load_processed_data() and the file exists: lines
\* 539-543, data = pickle.load(f)
BeginLoad ==
    /\ updater.pc = "idle"
    /\ updates < MaxUpdates
    /\ pickle_file /= NoFile
    /\ updates' = updates + 1
    /\ updater' = [pc     |-> "line_545",
                   data   |-> pickle_file,
                   target |-> [processed_projects |-> pickle_file.projects,
                               vectorizer         |-> pickle_file.vectorizer,
                               project_vectors    |-> pickle_file.project_vectors]]
    /\ UNCHANGED <<processed_projects, vectorizer, project_vectors, pickle_file,
                   finder, snapshots>>
    /\ UNCHANGED <<estVars, pureVars, search, results>>

\* Line 545: self.processed_projects = data['projects']
Load545 ==
    /\ updater.pc = "line_545"
    /\ processed_projects' = updater.data.projects
    /\ updater' = [updater EXCEPT !.pc = "line_546"]
    /\ UNCHANGED <<vectorizer, project_vectors, pickle_file, finder, snapshots,
                   updates>>
    /\ UNCHANGED <<estVars, pureVars, search, results>>

\* Line 546: self.vectorizer = data['vectorizer']
Load546 ==
    /\ updater.pc = "line_546"
    /\ vectorizer' = updater.data.vectorizer
    /\ updater' = [updater EXCEPT !.pc = "line_547"]
    /\ UNCHANGED <<processed_projects, project_vectors, pickle_file, finder,
                   snapshots, updates>>
    /\ UNCHANGED <<estVars, pureVars, search, results>>

\* Line 547: self.project_vectors = data['project_vectors']
Load547 ==
    /\ updater.pc = "line_547"
    /\ project_vectors' = updater.data.project_vectors
    /\ EndUpdate([Triple EXCEPT !.project_vectors = updater.data.project_vectors])
    /\ UNCHANGED <<processed_projects, vectorizer, pickle_file, finder, updates>>
    /\ UNCHANGED <<estVars, pureVars, search, results>>

\* the finder has read a field of the processor
Seen(field, value) == finder.seen \cup {<<field, value>>}

\* the finder calls find_similar_projects(query, top_k)
BeginFind ==
    /\ finder.pc = "idle"
    /\ finder' = [FinderIdle EXCEPT !.pc = "line_412"]
    /\ UNCHANGED <<procVars, updater, snapshots, updates>>
    /\ UNCHANGED <<estVars, pureVars, search, results>>

\* Line 412, left operand: not self.vectorizer
Find412 ==
    /\ finder.pc = "line_412"
    /\ finder' = [finder EXCEPT !.seen = Seen("vectorizer", vectorizer),
                                !.pc = IF vectorizer = None
                                       THEN "returned" ELSE "line_412_vectors"]
    /\ UNCHANGED <<procVars, updater, snapshots, updates>>
    /\ UNCHANGED <<estVars, pureVars, search, results>>

\* Line 412, right operand: self.project_vectors is None
Find412Vectors ==
    /\ finder.pc = "line_412_vectors"
    /\ finder' = [finder EXCEPT !.seen = Seen("project_vectors", project_vectors),
                                !.pc = IF project_vectors = None
                                       THEN "returned" ELSE "line_418"]
    /\ UNCHANGED <<procVars, updater, snapshots, updates>>
    /\ UNCHANGED <<estVars, pureVars, search, results>>

\* Line 418: self.vectorizer.transform([query]); None has no transform and
\* an unfitted vectorizer raises NotFittedError: both return [] (line 433)
Find418 ==
    /\ finder.pc = "line_418"
    /\ finder' = [finder EXCEPT !.seen = Seen("vectorizer", vectorizer),
                                !.pc = IF vectorizer = None \/ vectorizer = Unfitted
                                       THEN "returned" ELSE "line_421"]
    /\ UNCHANGED <<procVars, updater, snapshots, updates>>
    /\ UNCHANGED <<estVars, pureVars, search, results>>

\* Lines 421-424: cosine_similarity(query_vector, self.project_vectors) and
\* the top indices.  None raises and returns []; the rows that pass the
\* minimum similarity are any at most MaxHits rows of the matrix.
Find421 ==
    /\ finder.pc = "line_421"
    /\ IF project_vectors = None
       THEN finder' = [finder EXCEPT !.seen = Seen("project_vectors", project_vectors),
                                     !.pc = "returned"]
       ELSE \E hits \in DistinctSeqs(1..Len(project_vectors.rows), MaxHits) :
              finder' = [finder EXCEPT !.seen = Seen("project_vectors", project_vectors),
                                       !.top_indices = hits,
                                       !.pc = "line_429"]
    /\ UNCHANGED <<procVars, updater, snapshots, updates>>
    /\ UNCHANGED <<estVars, pureVars, search, results>>

\* Lines 426-431: one iteration of the loop reads self.processed_projects[idx];
\* an index past the end of the list raises and returns []
Find429 ==
    /\ finder.pc = "line_429"
    /\ IF finder.top_indices = << >>
       THEN finder' = [finder EXCEPT !.pc = "returned"]
       ELSE finder' = [finder EXCEPT
                          !.seen = Seen("processed_projects", processed_projects),
                          !.top_indices = IF Head(finder.top_indices) > Len(processed_projects)
                                          THEN << >> ELSE Tail(finder.top_indices),
                          !.pc = IF Head(finder.top_indices) > Len(processed_projects)
                                 THEN "returned" ELSE "line_429"]
    /\ UNCHANGED <<procVars, updater, snapshots, updates>>
    /\ UNCHANGED <<estVars, pureVars, search, results>>

\* the caller of the finder has taken the result
EndFind ==
    /\ finder.pc = "returned"
    /\ finder' = FinderIdle
    /\ UNCHANGED <<procVars, updater, snapshots, updates>>
    /\ UNCHANGED <<estVars, pureVars, search, results>>

InitConcurrent ==
    /\ updater = UpdaterIdle
    /\ finder = FinderIdle
    /\ snapshots = {[processed_projects |-> << >>, vectorizer |-> None,
                     project_vectors |-> None]}
    /\ updates = 0

NextConcurrent ==
    \/ BeginRebuild
    \/ AssignProjects
    \/ NewVectorizer
    \/ Fit
    \/ AssignVectors
    \/ ResetVectorizer
    \/ ResetVectors
    \/ Save
    \/ BeginLoad
    \/ Load545
    \/ Load546
    \/ Load547
    \/ BeginFind
    \/ Find412
    \/ Find412Vectors
    \/ Find418
    \/ Find421
    \/ Find429
    \/ EndFind

(***************************************************************************)
(* HnaviScraper.fetch_page of src/hnavi_scraper.py, lines 68-96, one       *)
(* attempt at a time                                                       *)
(***************************************************************************)
\* bound on the retries argument
MaxRetries == 3

\* the retries argument: the default 3, smaller counts, 0 and a negative one
RetryCounts == -1..MaxRetries

\* the subclasses of requests.RequestException an attempt may fail with
\* (session.get and raise_for_status, lines 74-75)
RequestErrors == {"Timeout", "ConnectionError", "HTTPError"}

\* the seconds random_delay() sleeps: random.uniform(1.0, 3.0) (lines 41, 65)
DelayRange == 1..3

\* variant: the wait is one second after every failed attempt
Backoff_constant(attempt) == 1

\* line 89: time.sleep(2 ** attempt)
Backoff(attempt) == 2 ^ attempt

\* line 70: for attempt in range(retries): the body runs for this attempt, or
\* the loop is over and line 94 returns None
LoopOrReturn(retries, attempt) == IF attempt < retries THEN "line_71" ELSE "returned"

NoFetch ==
    [pc |-> "idle", retries |-> 0, attempt |-> 0, outcomes |-> << >>,
     sleeps |-> << >>, delayed |-> 0, returned |-> "None"]

\* fetch_page(url, retries)
CallFetchPage ==
    /\ fetch = NoFetch
    /\ \E retries \in RetryCounts :
         fetch' = [NoFetch EXCEPT !.pc = LoopOrReturn(retries, 0), !.retries = retries]
    /\ UNCHANGED <<estVars, procVars, concVars, phases_call, ingest_call, dedup_call,
                   main_run>>

\* lines 71-84: the request succeeds, the page is parsed, random_delay()
\* sleeps and the soup is returned
AttemptSucceeds ==
    /\ fetch.pc = "line_71"
    /\ \E delay \in DelayRange :
         fetch' = [fetch EXCEPT !.pc = "returned",
                                !.outcomes = Append(@, "ok"),
                                !.delayed = delay,
                                !.returned = "soup"]
    /\ UNCHANGED <<estVars, procVars, concVars, phases_call, ingest_call, dedup_call,
                   main_run>>

\* lines 86-92: the request raises a RequestException; the handler sleeps and
\* the loop goes on, or, on the last attempt, returns None
AttemptFails ==
    /\ fetch.pc = "line_71"
    /\ \E error \in RequestErrors :
         fetch' =
            IF fetch.attempt < fetch.retries - 1
            THEN [fetch EXCEPT !.pc = LoopOrReturn(fetch.retries, fetch.attempt + 1),
                               !.attempt = @ + 1,
                               !.outcomes = Append(@, error),
                               !.sleeps = Append(@, Backoff(fetch.attempt))]
            ELSE [fetch EXCEPT !.pc = "returned",
                               !.outcomes = Append(@, error)]
    /\ UNCHANGED <<estVars, procVars, concVars, phases_call, ingest_call, dedup_call,
                   main_run>>

\* lines 71-84: an exception that is no RequestException (raised by
\* BeautifulSoup or by the decoding of response.text) leaves fetch_page
AttemptRaises ==
    /\ fetch.pc = "line_71"
    /\ fetch' = [fetch EXCEPT !.pc = "raised",
                              !.outcomes = Append(@, "other_exception")]
    /\ UNCHANGED <<estVars, procVars, concVars, phases_call, ingest_call, dedup_call,
                   main_run>>

\* the caller has taken what fetch_page returned or raised
ReturnFetched ==
    /\ fetch.pc \in {"returned", "raised"}
    /\ fetch' = NoFetch
    /\ UNCHANGED <<estVars, procVars, concVars, phases_call, ingest_call, dedup_call,
                   main_run>>

InitFetch == fetch = NoFetch

NextFetch ==
    \/ CallFetchPage
    \/ AttemptSucceeds
    \/ AttemptFails
    \/ AttemptRaises
    \/ ReturnFetched

(***************************************************************************)
(* The two queries, estimate_project_enhanced and find_similar_projects,   *)
(* called any number of times in any order.  The two programs share no     *)
(* variable: a call of one is taken while no call of the other is in hand. *)
(***************************************************************************)
\* the descriptions of the requests: empty, a keyword of the corpus, a
\* keyword of no record
QueryDescriptions == {{}, {"ec"}, {"crm"}}

\* POST /api/estimate (lines 367-456)
QueryEstimate ==
    /\ search = NoSearch
    /\ response = NoResponse
    /\ \E description \in QueryDescriptions :
         /\ locals' = HandlerLocals(description)
         /\ \E duration \in Durations, users \in UserScales :
              /\ request' = [description |-> description, category |-> "None",
                             duration |-> duration, users |-> users]
              /\ response' = EstimationResult(locals', request', hash_seed)
    /\ UNCHANGED <<estimation_data, last_update, hash_seed>>
    /\ UNCHANGED <<procVars, concVars, pureVars>>

\* find_similar_projects(query, top_k) (lines 410-435)
QueryFind ==
    /\ response = NoResponse
    /\ find_similar_projects

NextQueries ==
    \/ load_sample_data
    \/ generate_sample_data
    \/ QueryEstimate
    \/ Deliver
    \/ QueryFind
    \/ ReturnResults

vars == <<estVars, procVars, concVars, pureVars>>

InitEstimate ==
    /\ estimation_data = << >>
    /\ last_update = "None"
    /\ request = NoRequest
    /\ locals = NoLocals
    /\ response = NoResponse
    /\ hash_seed = 0

\* HnaviDataProcessor.__init__; no pickle file has been written
InitProcessor ==
    /\ processed_projects = << >>
    /\ vectorizer = None
    /\ project_vectors = None
    /\ pickle_file = NoFile
    /\ search = NoSearch
    /\ results = << >>

Init ==
    /\ InitEstimate
    /\ InitProcessor
    /\ InitConcurrent
    /\ InitPhases
    /\ InitIngest
    /\ InitDedup
    /\ InitFetch
    /\ InitMain

NextEstimate ==
    \/ load_sample_data
    \/ estimate_project_enhanced
    \/ Deliver

\* the estimate endpoint of src/enhanced_main.py
SpecEstimate == Init /\ [][NextEstimate]_vars

Next ==
    \/ load_and_process_data
    \/ generate_sample_data
    \/ prepare_vectorization
    \/ save_processed_data
    \/ load_processed_data
    \/ find_similar_projects
    \/ ReturnResults

\* calculate_phases_enhanced on every category, duration and user scale
SpecPhases == Init /\ [][NextPhases]_vars

\* load_and_process_data on every list of rows
SpecIngest == Init /\ [][NextIngest]_vars

\* main() of src/hnavi_integration.py on every file it may find
SpecMain == Init /\ [][NextMain]_vars

\* the queries of the two programs on the sample data
SpecQueries == Init /\ [][NextQueries]_vars

\* _remove_duplicates on every list of projects
SpecDedup == Init /\ [][NextDedup]_vars

\* fetch_page on every retry count and every outcome of its attempts
SpecFetch == Init /\ [][NextFetch]_vars

\* one HnaviDataProcessor used by one thread
Spec == Init /\ [][Next]_vars

\* one HnaviDataProcessor shared by an updating and a searching thread
SpecConcurrent == Init /\ [][NextConcurrent]_vars

(***************************************************************************)
(* Properties of the estimate endpoint                                     *)
(***************************************************************************)

\* the request in hand was answered with a result
Answered == response.status = 200

\* the request in hand was handled on an empty corpus
HandledOnEmptyCorpus == response /= NoResponse /\ locals.similarities = << >>

\* no record of the corpus has a similarity > 0 to the request in hand
NoMatch ==
    \A i \in 1..Len(locals.similarities) :
        ~FGt(locals.similarities[i].similarity, FZero)

\* the entries the aggregator works on that have a similarity > 0
Matched == Positive(locals.top_similar)

\* C3: with an empty corpus the estimate does not fail and returns the
\* default base values (400 hours, 2,000,000, confidence 0.3) with the
\* default provenance.
C3_EmptyCorpusReturnsDefaults ==
    HandledOnEmptyCorpus =>
        /\ response.status = 200
        /\ locals.estimated_hours = 400
        /\ locals.estimated_cost = 2000000
        /\ locals.confidence = FLit(3, 10)
        /\ response.data_source.source = "default_estimate"

\* C4: on a non-empty corpus without any similarity > 0 the base hours are
\* 400, the base cost 2,000,000, the base confidence 0.3, the provenance is
\* the default estimate and no similar project is cited.
C4_NoMatchDefaults ==
    (Answered /\ locals.similarities /= << >> /\ NoMatch) =>
        /\ locals.estimated_hours = 400
        /\ locals.estimated_cost = 2000000
        /\ locals.confidence = FLit(3, 10)
        /\ response.data_source.source = "default_estimate"
        /\ response.similar_projects = << >>

C4_Witness ==
    /\ Answered
    /\ Len(locals.similarities) = Len(SampleData)
    /\ NoMatch
    /\ locals.estimated_hours = 400

RECURSIVE MinExp(_, _)
MinExp(pos, i) ==
    IF i = Len(pos) THEN pos[i].similarity.e
    ELSE Min(pos[i].similarity.e, MinExp(pos, i + 1))

\* Sum of value_i * similarity_i over pos[i..], as a multiple of 2^emin
RECURSIVE ExactWeightedSum(_, _, _, _)
ExactWeightedSum(pos, field, emin, i) ==
    IF i > Len(pos) THEN << >>
    ELSE BigAdd(BigMul(BigShl(pos[i].similarity.m, pos[i].similarity.e - emin),
                       BigFromInt(estimation_data[pos[i].data][field])),
                ExactWeightedSum(pos, field, emin, i + 1))

\* Sum of similarity_i over pos[i..], as a multiple of 2^emin
RECURSIVE ExactWeight(_, _, _)
ExactWeight(pos, emin, i) ==
    IF i > Len(pos) THEN << >>
    ELSE BigAdd(BigShl(pos[i].similarity.m, pos[i].similarity.e - emin),
                ExactWeight(pos, emin, i + 1))

\* the weighted mean of a field over pos, truncated to an integer
ExactMean(pos, field) ==
    LET emin == MinExp(pos, 1)
    IN  BigToInt(BigDivMod(ExactWeightedSum(pos, field, emin, 1),
                           ExactWeight(pos, emin, 1))[1])

\* C6: base hours and base cost are the similarity-weighted mean
\* sum(value_i * similarity_i) / sum(similarity_i) over the matched pairs
\* with similarity > 0, truncated to an integer.
C6_WeightedMeanTruncated ==
    (Answered /\ ~NoMatch) =>
        /\ locals.estimated_hours = ExactMean(Matched, "hours")
        /\ locals.estimated_cost = ExactMean(Matched, "cost")

\* the positions of the records with a similarity > 0 to the request in hand
MatchingRecords ==
    {i \in 1..Len(locals.similarities) :
        FGt(locals.similarities[i].similarity, FZero)}

\* C7: if exactly one record has a similarity s > 0 the base hours and base
\* cost are that record's own hours and cost, whatever s is.
C7_SingleMatchExact ==
    (Answered /\ Cardinality(MatchingRecords) = 1) =>
        \A i \in MatchingRecords :
            /\ locals.estimated_hours = estimation_data[i].hours
            /\ locals.estimated_cost = estimation_data[i].cost

RECURSIVE WeightedConfidences(_, _)
WeightedConfidences(pos, i) ==
    IF i > Len(pos) THEN << >>
    ELSE <<FMul(estimation_data[pos[i].data].confidence, pos[i].similarity)>>
         \o WeightedConfidences(pos, i + 1)

\* C8 as stated: with a match the reported confidence is the
\* similarity-weighted mean of the matched records' stored confidence, times
\* 0.9, and lies in [0, 1].
C8_MeanOfStoredConfidence ==
    (Answered /\ ~NoMatch) =>
        /\ response.confidence_score =
              FMul(FDiv(FSum(WeightedConfidences(Matched, 1)),
                        FSum(Weights(Matched, 1))),
                   FLit(9, 10))
        /\ FCmp(response.confidence_score, FZero) >= 0
        /\ FCmp(response.confidence_score, FLit(1, 1)) <= 0

\* C8 amended: with a match the reported confidence is the highest similarity
\* of the corpus to the request, times 0.9, and lies in (0, 0.9].
C8_TopSimilarityScaled ==
    (Answered /\ ~NoMatch) =>
        /\ \E i \in MatchingRecords :
              /\ \A j \in MatchingRecords :
                    FCmp(locals.similarities[j].similarity,
                         locals.similarities[i].similarity) <= 0
              /\ response.confidence_score =
                    FMul(locals.similarities[i].similarity, FLit(9, 10))
        /\ FGt(response.confidence_score, FZero)
        /\ FCmp(response.confidence_score, FLit(9, 10)) <= 0

C8_Witness ==
    /\ Answered
    /\ Cardinality(MatchingRecords) >= 2
    /\ FGt(response.confidence_score, FZero)


(***************************************************************************)
(* Properties of HnaviDataProcessor                                        *)
(***************************************************************************)

\* C1: after any sequence of corpus-changing operations the index is either
\* unready (vectorizer and project_vectors both unset) or holds one vector per
\* entry of processed_projects, the vector at position i fitted from the
\* record at position i; no vectors of an earlier fit stay in place.
C1_IndexUnreadyOrAligned ==
    \/ vectorizer = None /\ project_vectors = None
    \/ /\ vectorizer = TfidfVectorizer(processed_projects)
       /\ project_vectors = Matrix(processed_projects)

\* C9: find_similar_projects(query, k) returns at most k results, for every
\* k >= 0 and every corpus size.
C9_AtMostK ==
    search /= NoSearch => Len(results) <= search.top_k

\* C10: every returned pair has a score > 0.1, the scores are in
\* non-increasing order, and no record whose score is at most 0.1 is returned,
\* also when fewer than k records qualify.
C10_AboveThresholdDescending ==
    search /= NoSearch =>
        /\ \A i \in 1..Len(results) : results[i].score > 100
        /\ \A i \in 1..Len(results) : \A j \in i..Len(results) :
              results[i].score >= results[j].score
        /\ \A i \in 1..Len(results) : \A idx \in 1..Len(processed_projects) :
              processed_projects[idx] = results[i].project
                  => search.similarities[idx] > 100

C10_Witness ==
    /\ search /= NoSearch
    /\ Len(results) >= 2
    /\ results[1].score > results[2].score
    /\ Len(results) < search.top_k
    /\ \E idx \in 1..Len(search.similarities) : search.similarities[idx] <= 100

\* the triples a search may have read its fields from: those the processor
\* held between operations and the one the running operation is installing
CompleteTriples ==
    snapshots \cup (IF updater.pc = "idle" THEN {} ELSE {updater.target})

\* C2: a search that interleaves with a rebuild or a load reads its fields
\* from the complete old triple (processed_projects, vectorizer,
\* project_vectors) or from the complete new one, never from a mix.
C2_OldOrNewTriple ==
    finder.pc = "returned" =>
        \E s \in CompleteTriples : \A read \in finder.seen : s[read[1]] = read[2]

\* the position of a returned project in the corpus
Position(project) ==
    CHOOSE idx \in 1..Len(processed_projects) : processed_projects[idx] = project

\* C11: on an index aligned with the corpus, of two records with equal
\* similarity the one earlier in the corpus is ranked first, and when only
\* one of them fits within the top k it is the earlier one (first-seen wins).
C11_FirstSeenWins ==
    (search /= NoSearch /\ project_vectors = Matrix(processed_projects)) =>
        /\ \A i \in 1..Len(results) : \A j \in (i + 1)..Len(results) :
              results[i].score = results[j].score =>
                  Position(results[i].project) < Position(results[j].project)
        /\ \A i \in 1..Len(results) :
              \A idx \in 1..(Position(results[i].project) - 1) :
                  search.similarities[idx] = results[i].score =>
                      \E j \in 1..Len(results) :
                          results[j].project = processed_projects[idx]

\* the index was not ready when the search in hand ran
IndexNotReady == vectorizer = None \/ project_vectors = None

\* C12: a search on an index that is not ready returns the empty sequence
\* and raises nothing; no search raises to its caller, and a search whose
\* try block failed returns the empty sequence.
C12_NeverRaises ==
    search /= NoSearch =>
        /\ ~search.raised
        /\ IndexNotReady => results = << >> /\ ~search.failed
        /\ search.failed => results = << >>

C12_Witness ==
    /\ search /= NoSearch
    /\ search.failed
    /\ ~search.raised
    /\ results = << >>
    /\ \E idx \in 1..Len(search.similarities) : search.similarities[idx] > MinSimilarity

C12_WitnessNotReady ==
    /\ search /= NoSearch
    /\ IndexNotReady
    /\ search.top_k > 0
    /\ results = << >>

(***************************************************************************)
(* Properties of the adjustments of the estimate endpoint                  *)
(***************************************************************************)

\* the duration table in tenths, as the specification states it
DurationTenths(duration) ==
    CASE duration = "1month"     -> 18
      [] duration = "2months"    -> 14
      [] duration = "3months"    -> 11
      [] duration = "4-6months"  -> 10
      [] duration = "6-12months" -> 12
      [] duration = "1year+"     -> 15
      [] OTHER                   -> 10

\* C13: the adjusted hours are the base hours times the table value of the
\* duration key (1.8, 1.4, 1.1, 1.0, 1.2, 1.5; 1.0 for any other key),
\* truncated to an integer.
C13_DurationTable ==
    Answered =>
        response.total_hours =
            (locals.estimated_hours * DurationTenths(request.duration)) \div 10

\* C14: on a non-empty corpus a duration, user-scale or category key that is in
\* no table never makes the estimate fail: an unknown duration leaves the
\* base hours as they are (multiplier 1.0), an unknown user scale gives the
\* result of "medium" (cost x 1.3, its infrastructure label, its additional
\* tags), an unknown or missing category the phases of the default table.
C14_UnknownKeysUseDefaults ==
    (response /= NoResponse /\ locals.similarities /= << >>) =>
        /\ response.status = 200
        /\ request.duration \notin DOMAIN duration_multipliers =>
              response.total_hours = locals.estimated_hours
        /\ request.users \notin DOMAIN user_scale_adjustments =>
              /\ response.total_cost =
                    FTrunc(FMul(FFromInt(locals.estimated_cost), FLit(13, 10)))
              /\ response.data_source.infrastructure = "scalable"
              /\ response =
                    EstimationResult(locals, [request EXCEPT !.users = "medium"],
                                     hash_seed)
        /\ request.category \notin DOMAIN phase_ratios =>
              response.phases =
                  calculate_phases_enhanced(response.total_hours, "default",
                                            request.duration, request.users)

C14_Witness ==
    /\ Answered
    /\ request.duration = "2weeks"
    /\ request.users = "huge"
    /\ request.category = "blog"
    /\ response.total_cost > locals.estimated_cost
    /\ Range(response.estimated_features) \cap
           Range(user_scale_adjustments["medium"].additional_features) /= {}

(***************************************************************************)
(* Properties of calculate_phases_enhanced                                 *)
(***************************************************************************)

\* a call of calculate_phases_enhanced is in hand
PhasesCalled == phases_call /= NoPhasesCall

FOne == FLit(1, 1)

\* 2^-52, the distance from 1.0 to the next float
Ulp == FRound(BigFromInt(1), -52, FALSE)

\* sum(ratios.values()) of the normalized ratios, as Python computes it
RatioSum(ratios) ==
    FSum(<<ratios.requirements_design, ratios.development, ratios.test, ratios.design>>)

\* every ratio is strictly between 0 and 1
StrictlyInside(ratios) ==
    \A phase \in DOMAIN ratios :
        FGt(ratios[phase], FZero) /\ FCmp(ratios[phase], FOne) < 0

\* C15 as stated: for every category table, duration and user scale the
\* normalized phase ratios sum to 1.0 and each lies strictly between 0 and 1.
C15_SumExactlyOne ==
    PhasesCalled =>
        /\ RatioSum(phases_call.ratios) = FOne
        /\ StrictlyInside(phases_call.ratios)

\* C15 amended: the normalized phase ratios sum to 1.0 within 2^-52 (the
\* floating-point tolerance of the spec) and each lies strictly between 0
\* and 1.
C15_SumWithinTolerance ==
    PhasesCalled =>
        /\ FCmp(FAdd(RatioSum(phases_call.ratios), Ulp), FOne) >= 0
        /\ FCmp(RatioSum(phases_call.ratios), FAdd(FOne, Ulp)) <= 0
        /\ StrictlyInside(phases_call.ratios)

C15_Witness ==
    /\ PhasesCalled
    /\ phases_call.category = "reservation"
    /\ phases_call.duration = "1month"
    /\ phases_call.users = "large"
    /\ RatioSum(phases_call.ratios) /= FOne

\* the ratio tables in hundredths and the perturbation factors in tenths, as
\* the decimal numbers they are written as
RatioHundredths(category) ==
    LET table ==
            [ec              |-> [requirements_design |-> 25, development |-> 45, test |-> 20, design |-> 10],
             business_system |-> [requirements_design |-> 30, development |-> 50, test |-> 15, design |-> 5],
             reservation     |-> [requirements_design |-> 20, development |-> 50, test |-> 20, design |-> 10],
             corporate       |-> [requirements_design |-> 15, development |-> 40, test |-> 15, design |-> 30],
             default         |-> [requirements_design |-> 20, development |-> 50, test |-> 20, design |-> 10]]
    IN  IF category \in DOMAIN table THEN table[category] ELSE table["default"]

DurationFactorTenths(duration) ==
    IF duration = "1month"
    THEN [requirements_design |-> 7, development |-> 11, test |-> 12, design |-> 10]
    ELSE IF duration \in {"6-12months", "1year+"}
         THEN [requirements_design |-> 13, development |-> 9, test |-> 14, design |-> 10]
         ELSE [requirements_design |-> 10, development |-> 10, test |-> 10, design |-> 10]

ScaleFactorTenths(users) ==
    IF users \in {"large", "enterprise", "public"}
    THEN [requirements_design |-> 14, development |-> 9, test |-> 16, design |-> 10]
    ELSE IF users = "small"
         THEN [requirements_design |-> 8, development |-> 12, test |-> 10, design |-> 10]
         ELSE [requirements_design |-> 10, development |-> 10, test |-> 10, design |-> 10]

Phases == {"requirements_design", "development", "test", "design"}

\* the adjusted ratio of a phase in ten-thousandths, before normalization
ExactShare(category, duration, users, phase) ==
    RatioHundredths(category)[phase] * DurationFactorTenths(duration)[phase]
        * ScaleFactorTenths(users)[phase]

\* the sum of the adjusted ratios in ten-thousandths
ExactTotal(category, duration, users) ==
    ExactShare(category, duration, users, "requirements_design")
    + ExactShare(category, duration, users, "development")
    + ExactShare(category, duration, users, "test")
    + ExactShare(category, duration, users, "design")

SumOfHours(phases) ==
    phases.requirements_design.hours + phases.development.hours
    + phases.test.hours + phases.design.hours

\* C16: the hours of each phase of the result are floor(total_hours x
\* normalized ratio) of the final total_hours the result reports, for the
\* category, duration and scale of the request; their sum is at most
\* total_hours and less than the number of phases below it.
C16_PhaseHoursFloor ==
    Answered =>
        /\ \A phase \in Phases :
              response.phases[phase].hours =
                  (response.total_hours
                       * ExactShare(estimated_category(request.category),
                                    request.duration, request.users, phase))
                  \div ExactTotal(estimated_category(request.category),
                                  request.duration, request.users)
        /\ SumOfHours(response.phases) <= response.total_hours
        /\ response.total_hours - SumOfHours(response.phases) < Cardinality(Phases)

\* the normalized ratios of a rushed small project of the category in hand
RushedSmall == ratio_table[phases_call.category]["1month"]["small"]

\* C17: for every category table the normalized shares of requirements/
\* design and of test under "6-12months" with "enterprise" are each
\* strictly larger than under "1month" with "small", and the share of
\* development is strictly smaller.
C17_LongEnterpriseShiftsShares ==
    (PhasesCalled /\ phases_call.duration = "6-12months"
                  /\ phases_call.users = "enterprise") =>
        /\ FGt(phases_call.ratios.requirements_design, RushedSmall.requirements_design)
        /\ FGt(phases_call.ratios.test, RushedSmall.test)
        /\ FGt(RushedSmall.development, phases_call.ratios.development)

C17_Witness ==
    /\ PhasesCalled
    /\ phases_call.duration = "6-12months"
    /\ phases_call.users = "enterprise"
    /\ phases_call.category = "corporate"
    /\ FGt(phases_call.ratios.test, RushedSmall.test)

\* C18: the cost of each phase is its hours times a rate fixed by the name of
\* the phase: 7000 for requirements/design, 6000 for design, 5000 for
\* development and test, so both design phases cost more per hour.
C18_CostIsHoursTimesRate ==
    PhasesCalled =>
        /\ phases_call.phases.requirements_design.cost =
              phases_call.phases.requirements_design.hours * 7000
        /\ phases_call.phases.design.cost = phases_call.phases.design.hours * 6000
        /\ phases_call.phases.development.cost =
              phases_call.phases.development.hours * 5000
        /\ phases_call.phases.test.cost = phases_call.phases.test.hours * 5000

C18_Witness ==
    /\ PhasesCalled
    /\ phases_call.total_hours = 400
    /\ phases_call.phases.design.hours > 0
    /\ phases_call.phases.design.cost > phases_call.phases.design.hours * 5000
    /\ phases_call.phases.requirements_design.cost
           > phases_call.phases.requirements_design.hours * 6000

(***************************************************************************)
(* Properties of the feature list of the estimate endpoint                 *)
(***************************************************************************)

\* C19: for duration "1month" the feature list of the result contains the
\* MVP marker, for every description and every user scale; neither the
\* scale filter nor the de-duplication nor the cut to 15 entries removes it.
C19_MvpMarkerReturned ==
    (Answered /\ request.duration = "1month") =>
        mvp_marker \in Range(response.estimated_features)

C19_Witness ==
    /\ Answered
    /\ request.duration = "1month"
    /\ request.users = "large"
    /\ Len(response.estimated_features) = 14
    /\ \E i \in 6..14 : response.estimated_features[i] = mvp_marker

\* C20: two executions of the same request on the same corpus return the
\* same result in every field, the feature list included, whichever run of
\* the interpreter answers: the result is the one every hash seed gives.
C20_SameResultInEveryRun ==
    Answered =>
        \A seed \in HashSeeds : response = EstimationResult(locals, request, seed)

(***************************************************************************)
(* Properties of the row processing of load_and_process_data               *)
(***************************************************************************)
RowsProcessed == ingest_call /= NoIngestCall

\* the project every company whose first row names a service should yield
ExpectedServiceProjects(rows) ==
    {[title |-> "service_development", company_name |-> RowCompanies[c]] :
        c \in {c \in 1..Len(RowCompanies) :
                  /\ Group(rows, RowCompanies[c]) /= << >>
                  /\ Group(rows, RowCompanies[c])[1].services = "text"}}

\* the project every row with a price and a context should yield
ExpectedPriceProjects(rows) ==
    {[title |-> rows[i].price_context \o "_context", company_name |-> rows[i].company_name] :
        i \in {i \in 1..Len(rows) :
                  /\ rows[i].min_price = "number"
                  /\ rows[i].price_context /= "missing"}}

\* C21: whatever cells of a row are malformed or missing, the batch is not
\* given up (the projects come from the rows, not from the sample data) and
\* the projects of the well-formed cells of the other rows are all produced:
\* one per company whose first row names a service, one per row with a
\* price and a context.
C21_BadRowSkippedAlone ==
    RowsProcessed =>
        /\ ingest_call.csv.kind = "rows"
        /\ ExpectedServiceProjects(ingest_call.rows) \subseteq Range(ingest_call.csv.projects)
        /\ ExpectedPriceProjects(ingest_call.rows) \subseteq Range(ingest_call.csv.projects)


\* the fields of the EstimationResult the handler returns (lines 440-452)
ResultFields ==
    {"status", "total_hours", "total_cost", "similar_projects", "confidence_score",
     "data_source", "estimated_features", "phases"}

\* C23: an exception raised while a request is processed is answered by the
\* one generic failure (HTTP 500); every other answer is a complete result,
\* and nothing else leaves the handler.
C23_ExceptionBecomes500 ==
    response /= NoResponse =>
        /\ locals.raised /= "None" => response = [status |-> 500]
        /\ locals.raised = "None" =>
             (response.status = 200 /\ DOMAIN response = ResultFields)

\* a request on the empty corpus: top_similar[0] raised IndexError and the
\* answer is HTTP 500
C23_Witness ==
    /\ locals.raised = "IndexError"
    /\ request.description /= {}
    /\ response = [status |-> 500]

\* the additional features of the tier of the request that are in the result
TierTagsReturned ==
    Range(response.estimated_features)
    \cap Range(user_info(request.users).additional_features)

\* C26: the feature list of a result has no entry twice and at most 15
\* entries, and at most 3 of the additional features of the tier of the
\* request are in it: the first three.
C26_FeatureListBounded ==
    Answered =>
        /\ \A i, j \in 1..Len(response.estimated_features) :
             response.estimated_features[i] = response.estimated_features[j] => i = j
        /\ Len(response.estimated_features) <= MaxFeatures
        /\ Cardinality(TierTagsReturned) <= 3
        /\ TierTagsReturned \subseteq Range(Prefix(user_info(request.users).additional_features, 3))

\* a result for a tier with four additional features: three of them are in
\* its feature list
C26_Witness ==
    /\ Answered
    /\ Len(user_info(request.users).additional_features) = 4
    /\ Cardinality(TierTagsReturned) = 3
    /\ Len(response.estimated_features) > 8

\* the entries of top_similar that have a weight in the sums of lines
\* 386-393
Contributors == Positive(locals.top_similar)

\* the titles of the records whose similarity to the request is 0
TitlesWithoutSimilarity ==
    {estimation_data[locals.similarities[i].data].title :
        i \in {j \in 1..Len(locals.similarities) :
                 locals.similarities[j].similarity = FZero}}

\* C27: the similar projects of a result are the records that have a weight
\* in the base estimate, in the same order: at most 3, each with a
\* similarity > 0, in non-increasing order of similarity; a record with
\* similarity 0 is not cited and, when no record has a weight, none is cited
\* and the estimate is the default one.
C27_CitedAreTheContributors ==
    Answered =>
        /\ Len(response.similar_projects) <= 3
        /\ Len(response.similar_projects) = Len(Contributors)
        /\ \A i \in 1..Len(Contributors) :
             /\ response.similar_projects[i].title
                    = estimation_data[Contributors[i].data].title
             /\ response.similar_projects[i].similarity
                    = FormatPercent(Contributors[i].similarity)
             /\ FGt(Contributors[i].similarity, FZero)
             /\ \A j \in i..Len(Contributors) :
                  FCmp(Contributors[i].similarity, Contributors[j].similarity) >= 0
        /\ \A i \in 1..Len(response.similar_projects) :
             response.similar_projects[i].title \notin TitlesWithoutSimilarity
        /\ (response.similar_projects = << >>)
               = (response.data_source.source = "default_estimate")

\* two records are cited and the third of top_similar, whose similarity is
\* 0, is not
C27_Witness ==
    /\ Answered
    /\ Len(locals.top_similar) = 3
    /\ locals.top_similar[3].similarity = FZero
    /\ Len(response.similar_projects) = 2

(***************************************************************************)
(* Properties of main() and of the snapshot file                           *)
(***************************************************************************)
MainDone == main_run.pc = "done"

\* the triple __init__ leaves (lines 43-45)
NewProcessor == [processed_projects |-> << >>, vectorizer |-> None, project_vectors |-> None]

\* the triples load_and_process_data leaves when it is called on a new
\* processor
RebuiltFromScratch ==
    {[processed_projects |-> projects,
      vectorizer         |-> PreparedIndex(projects, NewProcessor, fit_ok).vectorizer,
      project_vectors    |-> PreparedIndex(projects, NewProcessor, fit_ok).project_vectors] :
        projects \in {sample_projects}
                     \cup {remove_duplicates(q) : q \in SeqsUpTo(CsvProjects, MaxCsvProjects)},
        fit_ok \in BOOLEAN}

\* C22: load_processed_data on an absent or unreadable file returns False
\* without raising, and main() then rebuilds corpus and index from scratch
\* and saves a new snapshot; when the load succeeds, main() neither rebuilds
\* nor saves.
C22_FailedLoadMeansRebuildAndSave ==
    MainDone =>
        /\ main_run.found.kind \in {"absent", "unreadable"} =>
             /\ ~main_run.loaded
             /\ Triple \in RebuiltFromScratch
             /\ main_run.saved = "saved" => pickle_file = SnapshotOf(Triple)
        /\ ~main_run.loaded =>
             main_run.calls = <<"load_processed_data", "load_and_process_data",
                                "save_processed_data", "export_for_estimation_api">>
        /\ main_run.loaded =>
             /\ main_run.calls = <<"load_processed_data", "export_for_estimation_api">>
             /\ pickle_file = main_run.found
             /\ SnapshotOf(Triple) = main_run.found

\* main() found an unreadable file, rebuilt the corpus with its index and
\* saved it
C22_Witness ==
    /\ MainDone
    /\ main_run.found.kind = "unreadable"
    /\ ~main_run.loaded
    /\ vectorizer /= None
    /\ main_run.saved = "saved"
    /\ pickle_file = SnapshotOf(Triple)


\* C24: _prepare_vectorization on an empty list of projects ends with an
\* EmptyCorpusError that its caller observes; it does not complete silently.
C24_EmptyCorpusErrorRaised ==
    (main_run.pc = "line_595" /\ processed_projects = << >>) =>
        main_run.prepared = "EmptyCorpusError"


\* C25: a query changes no shared state: a step in which
\* find_similar_projects returns a result leaves processed_projects,
\* vectorizer and project_vectors as they were, and a step in which the
\* estimate endpoint answers leaves estimation_data (every field of every
\* record) and last_update as they were, whatever the request is and however
\* many requests came before.
C25_QueriesLeaveSharedState ==
    [][/\ (search = NoSearch /\ search' /= NoSearch) =>
            UNCHANGED <<processed_projects, vectorizer, project_vectors>>
       /\ (response = NoResponse /\ response' /= NoResponse) =>
            UNCHANGED <<estimation_data, last_update>>]_vars

\* a search on the fitted sample projects has returned projects, next to a
\* loaded estimation corpus
C25_Witness ==
    /\ search /= NoSearch
    /\ results /= << >>
    /\ Triple = [processed_projects |-> sample_projects,
                 vectorizer         |-> TfidfVectorizer(sample_projects),
                 project_vectors    |-> Matrix(sample_projects)]
    /\ estimation_data = SampleData
    /\ last_update = "now"


\* C28: when load_processed_data returns False (the file is absent,
\* unreadable or lacks one of the keys projects, vectorizer and
\* project_vectors), processed_projects, vectorizer and project_vectors are
\* what they were before the call: in main(), those of the new processor.
C28_FailedLoadLeavesTriple ==
    (main_run.pc = "line_594" /\ ~main_run.loaded) => Triple = NewProcessor


(***************************************************************************)
(* Properties of _remove_duplicates                                        *)
(***************************************************************************)
SamePair(a, b) == a.title = b.title /\ a.company_name = b.company_name

\* the projects of a list that no earlier project of the list shares title
\* and company name with, in the order of the list
RECURSIVE FirstOfEachPair(_, _)
FirstOfEachPair(projects, i) ==
    IF i > Len(projects) THEN << >>
    ELSE (IF \E j \in 1..(i - 1) : SamePair(projects[j], projects[i])
          THEN << >>
          ELSE <<projects[i]>>)
         \o FirstOfEachPair(projects, i + 1)

\* C29: _remove_duplicates returns the projects in their order, keeping the
\* first of every (title, company_name) pair and dropping a project only if
\* an earlier one has the same title and the same company name; applied to
\* its own result it returns that result.
C29_FirstOfEachPairKept ==
    dedup_call /= NoDedupCall =>
        /\ dedup_call.returned = FirstOfEachPair(dedup_call.projects, 1)
        /\ remove_duplicates(dedup_call.returned) = dedup_call.returned


(***************************************************************************)
(* Properties of fetch_page                                                *)
(***************************************************************************)
\* the attempts, counted from 1, that failed with a request error
FailedAttempts ==
    {i \in 1..Len(fetch.outcomes) : fetch.outcomes[i] \in RequestErrors}

\* every attempt of the retries allowed has failed with a request error
AllAttemptsFailed ==
    /\ Len(fetch.outcomes) >= fetch.retries
    /\ FailedAttempts = 1..Len(fetch.outcomes)

\* C30: fetch_page makes at most `retries` attempts; every attempt but the
\* last one made has failed, so that none follows a success; after failed
\* attempt number `attempt` (from 0), unless it is the last of the retries,
\* it has slept 2^attempt seconds; a success returns the parsed page at once;
\* and once all attempts have failed with a request error, also when retries
\* is 0, it has returned None.
C30_RetriesWithBackoff ==
    fetch.pc /= "idle" =>
        /\ Len(fetch.outcomes) <= (IF fetch.retries > 0 THEN fetch.retries ELSE 0)
        /\ \A i \in 1..(Len(fetch.outcomes) - 1) : i \in FailedAttempts
        /\ Len(fetch.sleeps) = Cardinality({i \in FailedAttempts : i < fetch.retries})
        /\ \A i \in 1..Len(fetch.sleeps) : fetch.sleeps[i] = 2 ^ (i - 1)
        /\ (fetch.outcomes /= << >> /\ fetch.outcomes[Len(fetch.outcomes)] = "ok") =>
             (fetch.pc = "returned" /\ fetch.returned = "soup")
        /\ AllAttemptsFailed => (fetch.pc = "returned" /\ fetch.returned = "None")
        /\ (fetch.pc = "returned" /\ fetch.returned = "None") => AllAttemptsFailed

\* three attempts have failed, fetch_page has slept 1 and 2 seconds and
\* returned None
C30_Witness ==
    /\ fetch.pc = "returned"
    /\ fetch.retries = 3
    /\ FailedAttempts = 1..3
    /\ fetch.sleeps = <<1, 2>>
    /\ fetch.returned = "None"

====
